---- MODULE Spec2Model ----
(***************************************************************************)
(* A model of ActiveDirectoryAuthenticate (index.ts, latest revision with  *)
(* #findUserBindDN / #tryUserBind and the user bind DN cache).             *)
(*                                                                         *)
(* Strings whose characters the code inspects (user names, error messages) *)
(* are sequences of one-character strings.  Passwords and DNs are only     *)
(* compared, they are TLA+ strings.  The directory (ldapts client) and its *)
(* failures are the environment: every awaited client operation completes  *)
(* in a step of its own with an outcome the environment chooses.           *)
(* JavaScript runs the code between two awaits without interruption, so    *)
(* each action is one such run.                                            *)
(***************************************************************************)
EXTENDS Integers, Sequences, FiniteSets, TLC

VARIABLES
    ldapClientUrlOrOptions, \* the first argument of the constructor
    url,               \* #clientOptions.url
    cacheUserBindDNs,  \* #activeDirectoryAuthenticateConfig.cacheUserBindDNs ?? false
    userBindDNsCache,  \* #userBindDNsCache: [present, data]; data maps key -> [v, t]
    now,               \* the clock (seconds)
    started,           \* number of authenticate() invocations so far
    calls,             \* the state of each in-flight / finished invocation
    flushedKeys,       \* history: the keys clearCache() has removed so far
    clearedInFlight,   \* history: the invocations clearCache() ran under, between
                       \* their cache lookup and their cache write
    userNamePartCall   \* a call of getUserNamePart: [pc, userName, userNamePart]

vars == <<ldapClientUrlOrOptions, url, cacheUserBindDNs, userBindDNsCache, now, started, calls, flushedKeys,
         clearedInFlight, userNamePartCall>>

----------------------------------------------------------------------------
(* Bounds of the model *)

MaxCalls == 2
MaxNameLen == 5
MaxNow == 90
TickStep == 30

(* The invocations that can be in flight at once. *)
Slots == {1, 2}

(* Program constants *)
StdTTL == 60

----------------------------------------------------------------------------
(* Values *)

Undefined == "undefined"
bindUserDN == "CN=svc"
bindUserPassword == "svcpw"

NoClient == <<0, 0>>
NoError == [class |-> "none", message |-> <<>>]

----------------------------------------------------------------------------
(* Strings as sequences of characters *)

(* String.prototype.includes *)
Includes(s, sub) ==
    \E i \in 1..(Len(s) - Len(sub) + 1) : SubSeq(s, i, i + Len(sub) - 1) = sub

(* The index of the first occurrence of character ch in s, 0 when absent *)
IndexOf(s, ch) ==
    IF \E i \in 1..Len(s) : s[i] = ch
    THEN CHOOSE i \in 1..Len(s) : s[i] = ch /\ \A j \in 1..(i - 1) : s[j] # ch
    ELSE 0

(* String.prototype.split with a one-character separator *)
RECURSIVE Split(_, _)
Split(s, ch) ==
    LET i == IndexOf(s, ch)
    IN  IF i = 0
        THEN <<s>>
        ELSE <<SubSeq(s, 1, i - 1)>> \o Split(SubSeq(s, i + 1, Len(s)), ch)

(* getUserNamePart without the '@' rule *)
getUserNamePart_NoAt(userName) ==
    LET parts == Split(userName, "\\")
    IN  IF Len(parts) = 2 THEN parts[2] ELSE parts[1]

(* getUserNamePart taking the last part whatever the number of parts *)
getUserNamePart_LastPart(userName) ==
    IF Includes(userName, <<"@">>)
    THEN Split(userName, "@")[1]
    ELSE LET parts == Split(userName, "\\")
         IN  parts[Len(parts)]

(* utilities.ts: getUserNamePart *)
getUserNamePart(userName) ==
    IF Includes(userName, <<"@">>)
    THEN Split(userName, "@")[1]
    ELSE LET parts == Split(userName, "\\")
         IN  IF Len(parts) = 2 THEN parts[2] ELSE parts[1]

----------------------------------------------------------------------------
(* errorTypes.ts *)

activeDirectoryErrors ==
    << <<<<"5", "2", "e">>, "LOGON_FAILURE">>,
       <<<<"5", "2", "5">>, "NO_SUCH_USER">>,
       <<<<"5", "3", "0">>, "INVALID_LOGIN_HOURS">>,
       <<<<"5", "3", "1">>, "INVALID_WORKSTATION">>,
       <<<<"5", "3", "2">>, "PASSWORD_EXPIRED">>,
       <<<<"5", "3", "3">>, "ACCOUNT_DISABLED">>,
       <<<<"5", "3", "4">>, "INVALID_LOGIN_TYPE">>,
       <<<<"7", "0", "1">>, "ACCOUNT_EXPIRED">>,
       <<<<"7", "7", "3">>, "PASSWORD_MUST_CHANGE">>,
       <<<<"7", "7", "5">>, "ACCOUNT_LOCKED_OUT">> >>

(* The key ` data ${code}, ` of adLdapBindErrors *)
BindErrorKey(code) == <<" ", "d", "a", "t", "a", " ">> \o code \o <<",", " ">>

(* Object.entries(adLdapBindErrors): the keys are not integer-like, so the
   entries come in insertion order *)
adLdapBindErrors ==
    [i \in 1..Len(activeDirectoryErrors) |->
        <<BindErrorKey(activeDirectoryErrors[i][1]), activeDirectoryErrors[i][2]>>]

(* #tryUserBind, the catch block: the error type of a failed user bind *)
BindErrorType(error) ==
    IF error.class = "InvalidCredentialsError"
       /\ \E i \in 1..Len(adLdapBindErrors) : Includes(error.message, adLdapBindErrors[i][1])
    THEN LET first == CHOOSE i \in 1..Len(adLdapBindErrors) :
                          /\ Includes(error.message, adLdapBindErrors[i][1])
                          /\ \A j \in 1..(i - 1) :
                                 ~Includes(error.message, adLdapBindErrors[j][1])
         IN  adLdapBindErrors[first][2]
    ELSE "AUTHENTICATION_FAILED"

----------------------------------------------------------------------------
(* What the environment can supply *)

UserNames == { <<>>, <<"a">>, <<"D", "\\", "a">>, <<"b", "@", "D">> }
Passwords == { "", "pw" }
Urls == { "", "ldap://dc" }

(* An error message of Active Directory for sub-status `code` *)
AdMessage(code) == <<"r", ",">> \o BindErrorKey(code) \o <<"v", "1">>

InvalidCredentialsError(message) ==
    [class |-> "InvalidCredentialsError", message |-> message]
OtherError(message) == [class |-> "Error", message |-> message]

NetError == OtherError(<<"n", "e", "t">>)
ConstructError == OtherError(<<"u", "r", "l">>)
UnbindError == OtherError(<<"u", "n", "b">>)

ServiceBindErrors == { NetError, InvalidCredentialsError(AdMessage(<<"5", "2", "e">>)) }
SearchErrors == { NetError }
SearchEntries == { <<>>, <<"CN=r1">>, <<"CN=r2", "CN=r1">> }

----------------------------------------------------------------------------
(* Records *)

NoResult ==
    [fields |-> {}, success |-> FALSE, bindUserDN |-> "", sAMAccountName |-> <<>>,
     errorType |-> "none", error |-> NoError]

NoSearchResult == [success |-> FALSE, userBindDN |-> Undefined, result |-> NoResult]

(* One call of the collaborators (ldapts client, cache), as the call log of a
   test double would record it; a cache write also records its time *)
Event(op, client) ==
    [op |-> op, client |-> client, dn |-> "", password |-> "", key |-> <<>>,
     ok |-> TRUE, error |-> NoError, entries |-> <<>>, at |-> 0]

IdleCall ==
    [pc |-> "idle", userName |-> <<>>, password |-> "", sAMAccountName |-> <<>>,
     userBindDN |-> Undefined, client |-> NoClient, nClients |-> 0,
     userSearchResult |-> NoSearchResult, result |-> NoResult,
     thrown |-> NoError, trace |-> <<>>]

(* Result objects *)
ConfigurationErrorResult ==
    [fields |-> {"success", "bindUserDN", "error", "errorType"}, success |-> FALSE,
     bindUserDN |-> "", sAMAccountName |-> <<>>, errorType |-> "CONFIGURATION_ERROR",
     error |-> OtherError(<<"LDAP client URL is not configured.">>)]

(* EmptyInputResult without the test of which input is empty *)
EmptyInputResult_AlwaysUserName(userName) ==
    [fields |-> {"success", "bindUserDN", "errorType"}, success |-> FALSE,
     bindUserDN |-> "", sAMAccountName |-> <<>>,
     errorType |-> "EMPTY_USER_NAME", error |-> NoError]

EmptyInputResult(userName) ==
    [fields |-> {"success", "bindUserDN", "errorType"}, success |-> FALSE,
     bindUserDN |-> "", sAMAccountName |-> <<>>,
     errorType |-> IF userName = <<>> THEN "EMPTY_USER_NAME" ELSE "EMPTY_PASSWORD",
     error |-> NoError]

FailureResult(dn, errorType, error) ==
    [fields |-> {"success", "bindUserDN", "error", "errorType"}, success |-> FALSE,
     bindUserDN |-> dn, sAMAccountName |-> <<>>, errorType |-> errorType,
     error |-> error]

SuccessResult(dn, sAMAccountName) ==
    [fields |-> {"success", "bindUserDN", "sAMAccountName"}, success |-> TRUE,
     bindUserDN |-> dn, sAMAccountName |-> sAMAccountName, errorType |-> "none",
     error |-> NoError]

AccountNotFoundError(sAMAccountName) ==
    OtherError(<<"User with sAMAccountName \"">> \o sAMAccountName \o <<"\" not found.">>)

----------------------------------------------------------------------------
(* The cache (NodeCache with stdTTL 60, useClones false) *)

NoCache == [present |-> FALSE, data |-> <<>>]
EmptyCache == [present |-> TRUE, data |-> <<>>]

(* NewCache that creates the cache whatever the configuration says *)
NewCache_Always(enabled) == EmptyCache

(* constructor *)
NewCache(enabled) == IF enabled THEN EmptyCache ELSE NoCache

(* CacheGet of a cache that never holds anything *)
CacheGet_AlwaysMiss(cache, key) == Undefined

(* CacheGet that never lets an entry expire *)
CacheGet_IgnoresTTL(cache, key) ==
    IF cache.present /\ key \in DOMAIN cache.data
    THEN cache.data[key].v
    ELSE Undefined

(* this.#userBindDNsCache?.get(key): an entry is returned until its expiry time *)
CacheGet(cache, key) ==
    IF cache.present /\ key \in DOMAIN cache.data /\ ~(cache.data[key].t < now)
    THEN cache.data[key].v
    ELSE Undefined

(* CacheSet that leaves an entry that has not expired as it is *)
CacheSet_KeepsFirst(cache, key, value) ==
    IF cache.present
    THEN IF key \in DOMAIN cache.data /\ ~(cache.data[key].t < now)
         THEN cache
         ELSE [cache EXCEPT !.data =
                  [k \in (DOMAIN cache.data) \cup {key} |->
                      IF k = key THEN [v |-> value, t |-> now + StdTTL]
                      ELSE cache.data[k]]]
    ELSE cache

(* CacheSet that replaces the value of an entry and keeps its expiry time *)
CacheSet_KeepsExpiry(cache, key, value) ==
    IF cache.present
    THEN [cache EXCEPT !.data =
             [k \in (DOMAIN cache.data) \cup {key} |->
                 IF k = key
                 THEN [v |-> value,
                       t |-> IF key \in DOMAIN cache.data
                             THEN cache.data[key].t ELSE now + StdTTL]
                 ELSE cache.data[k]]]
    ELSE cache

(* this.#userBindDNsCache?.set(key, value) *)
CacheSet(cache, key, value) ==
    IF cache.present
    THEN [cache EXCEPT !.data =
             [k \in (DOMAIN cache.data) \cup {key} |->
                 IF k = key THEN [v |-> value, t |-> now + StdTTL] ELSE cache.data[k]]]
    ELSE cache

(* CacheFlushAll that leaves the entries where they are *)
CacheFlushAll_Keeps(cache) == cache

(* this.#userBindDNsCache?.flushAll() *)
CacheFlushAll(cache) == IF cache.present THEN EmptyCache ELSE cache

----------------------------------------------------------------------------
(* The code of one invocation, between two awaits.  r is the invocation's
   state, c its slot; the remaining parameters are the environment's answers. *)

(* NewLdapClient with one client kept in a field and used by every call *)
NewLdapClient_Shared(r, c, newOk, pc) ==
    IF newOk
    THEN [r EXCEPT !.nClients = @ + 1,
                   !.client = <<1, 1>>,
                   !.trace = IF c = 1 /\ r.nClients = 0
                             THEN Append(@, Event("new", <<1, 1>>)) ELSE @,
                   !.pc = pc]
    ELSE [r EXCEPT !.pc = "thrown", !.thrown = ConstructError]

(* new LdapClient(this.#clientOptions): the constructor returns (newOk) or throws *)
NewLdapClient(r, c, newOk, pc) ==
    IF newOk
    THEN [r EXCEPT !.nClients = @ + 1,
                   !.client = <<c, r.nClients + 1>>,
                   !.trace = Append(@, Event("new", <<c, r.nClients + 1>>)),
                   !.pc = pc]
    ELSE [r EXCEPT !.pc = "thrown", !.thrown = ConstructError]

(* #findUserBindDN up to `await client.bind(bindUserDN, bindUserPassword)` *)
findUserBindDNBegin(r, c, newOk) == NewLdapClient(r, c, newOk, "serviceBind")

(* tryUserBindBegin binding on the client the call already has *)
tryUserBindBegin_ReusesClient(r, c, newOk) == [r EXCEPT !.pc = "userBind"]

(* #tryUserBind up to `await client.bind(userBindDN, password)` *)
tryUserBindBegin(r, c, newOk) == NewLdapClient(r, c, newOk, "userBind")

(* UserBindArgs of a bind with the DN alone (an unauthenticated bind) *)
UserBindArgs_NoPassword(r) == [dn |-> r.userBindDN, password |-> ""]

(* The arguments of the user bind *)
UserBindArgs(r) == [dn |-> r.userBindDN, password |-> r.password]

(* authenticateBegin without the test for empty inputs *)
authenticateBegin_NoEmptyCheck(c, userName, password, newOk) ==
    LET r0 == [IdleCall EXCEPT !.userName = userName, !.password = password]
    IN  IF url = ""
        THEN [r0 EXCEPT !.pc = "returned", !.result = ConfigurationErrorResult]
        ELSE LET sAMAccountName == getUserNamePart(userName)
                 cached == CacheGet(userBindDNsCache, sAMAccountName)
                 r1 == [r0 EXCEPT !.sAMAccountName = sAMAccountName,
                                  !.userBindDN = cached]
             IN  IF cached = Undefined
                 THEN findUserBindDNBegin(r1, c, newOk)
                 ELSE tryUserBindBegin(r1, c, newOk)

(* authenticateBegin with the empty inputs tested before the URL *)
authenticateBegin_InputsFirst(c, userName, password, newOk) ==
    LET r0 == [IdleCall EXCEPT !.userName = userName, !.password = password]
    IN  IF userName = <<>> \/ password = ""
        THEN [r0 EXCEPT !.pc = "returned", !.result = EmptyInputResult(userName)]
        ELSE IF url = ""
        THEN [r0 EXCEPT !.pc = "returned", !.result = ConfigurationErrorResult]
        ELSE LET sAMAccountName == getUserNamePart(userName)
                 cached == CacheGet(userBindDNsCache, sAMAccountName)
                 r1 == [r0 EXCEPT !.sAMAccountName = sAMAccountName,
                                  !.userBindDN = cached]
             IN  IF cached = Undefined
                 THEN findUserBindDNBegin(r1, c, newOk)
                 ELSE tryUserBindBegin(r1, c, newOk)

(* authenticateBegin looking the user name up in the cache as the caller wrote
   it *)
authenticateBegin_RawKey(c, userName, password, newOk) ==
    LET r0 == [IdleCall EXCEPT !.userName = userName, !.password = password]
    IN  IF url = ""
        THEN [r0 EXCEPT !.pc = "returned", !.result = ConfigurationErrorResult]
        ELSE IF userName = <<>> \/ password = ""
        THEN [r0 EXCEPT !.pc = "returned", !.result = EmptyInputResult(userName)]
        ELSE LET sAMAccountName == getUserNamePart(userName)
                 cached == CacheGet(userBindDNsCache, userName)
                 r1 == [r0 EXCEPT
                           !.sAMAccountName = sAMAccountName,
                           !.userBindDN = cached,
                           !.trace = IF userBindDNsCache.present
                                     THEN <<[Event("get", NoClient) EXCEPT
                                               !.key = sAMAccountName, !.dn = cached]>>
                                     ELSE <<>>]
             IN  IF cached = Undefined
                 THEN findUserBindDNBegin(r1, c, newOk)
                 ELSE tryUserBindBegin(r1, c, newOk)

(* authenticate() up to its first await *)
authenticateBegin(c, userName, password, newOk) ==
    LET r0 == [IdleCall EXCEPT !.userName = userName, !.password = password]
    IN  IF url = ""
        THEN [r0 EXCEPT !.pc = "returned", !.result = ConfigurationErrorResult]
        ELSE IF userName = <<>> \/ password = ""
        THEN [r0 EXCEPT !.pc = "returned", !.result = EmptyInputResult(userName)]
        ELSE LET sAMAccountName == getUserNamePart(userName)
                 cached == CacheGet(userBindDNsCache, sAMAccountName)
                 r1 == [r0 EXCEPT
                           !.sAMAccountName = sAMAccountName,
                           !.userBindDN = cached,
                           !.trace = IF userBindDNsCache.present
                                     THEN <<[Event("get", NoClient) EXCEPT
                                               !.key = sAMAccountName, !.dn = cached]>>
                                     ELSE <<>>]
             IN  IF cached = Undefined
                 THEN findUserBindDNBegin(r1, c, newOk)
                 ELSE tryUserBindBegin(r1, c, newOk)

(* findUserBindDNCatch reporting no DN at all *)
findUserBindDNCatch_NoDN(r, error) ==
    [r EXCEPT !.userSearchResult =
                  [success |-> FALSE, userBindDN |-> Undefined,
                   result |-> FailureResult("", "LDAP_SEARCH_FAILED", error)],
              !.pc = "searchUnbind"]

(* #findUserBindDN: the catch block, then `finally { await client.unbind() }` *)
findUserBindDNCatch(r, error) ==
    [r EXCEPT !.userSearchResult =
                  [success |-> FALSE, userBindDN |-> Undefined,
                   result |-> FailureResult(bindUserDN, "LDAP_SEARCH_FAILED", error)],
              !.pc = "searchUnbind"]

(* afterServiceBind that binds again when the bind failed *)
afterServiceBind_Retries(r, ok, error) ==
    LET r1 == [r EXCEPT !.trace = Append(@,
                   [Event("bind", r.client) EXCEPT
                       !.dn = bindUserDN, !.password = bindUserPassword,
                       !.ok = ok, !.error = IF ok THEN NoError ELSE error])]
    IN  IF ok THEN [r1 EXCEPT !.pc = "search"] ELSE [r1 EXCEPT !.pc = "serviceBind"]

(* #findUserBindDN after `await client.bind(...)` *)
afterServiceBind(r, ok, error) ==
    LET r1 == [r EXCEPT !.trace = Append(@,
                   [Event("bind", r.client) EXCEPT
                       !.dn = bindUserDN, !.password = bindUserPassword,
                       !.ok = ok, !.error = IF ok THEN NoError ELSE error])]
    IN  IF ok THEN [r1 EXCEPT !.pc = "search"] ELSE findUserBindDNCatch(r1, error)

(* afterSearch returning on zero entries without the finally block: the
   session is left as it is *)
afterSearch_EarlyReturn(r, ok, error, entries) ==
    LET r1 == [r EXCEPT !.trace = Append(@,
                   [Event("search", r.client) EXCEPT
                       !.key = r.sAMAccountName, !.ok = ok,
                       !.error = IF ok THEN NoError ELSE error,
                       !.entries = IF ok THEN entries ELSE <<>>])]
    IN  IF ~ok
        THEN findUserBindDNCatch(r1, error)
        ELSE IF Len(entries) = 0
        THEN [r1 EXCEPT
                 !.result = FailureResult(bindUserDN, "ACCOUNT_NOT_FOUND",
                                          AccountNotFoundError(r.sAMAccountName)),
                 !.pc = "returned"]
        ELSE [r1 EXCEPT
                 !.userSearchResult =
                     [success |-> TRUE, userBindDN |-> entries[1], result |-> NoResult],
                 !.pc = "searchUnbind"]

(* afterSearch taking the last entry of the search *)
afterSearch_LastEntry(r, ok, error, entries) ==
    LET r1 == [r EXCEPT !.trace = Append(@,
                   [Event("search", r.client) EXCEPT
                       !.key = r.sAMAccountName, !.ok = ok,
                       !.error = IF ok THEN NoError ELSE error,
                       !.entries = IF ok THEN entries ELSE <<>>])]
    IN  IF ~ok
        THEN findUserBindDNCatch(r1, error)
        ELSE IF Len(entries) = 0
        THEN [r1 EXCEPT
                 !.userSearchResult =
                     [success |-> FALSE, userBindDN |-> Undefined,
                      result |-> FailureResult(bindUserDN, "ACCOUNT_NOT_FOUND",
                                               AccountNotFoundError(r.sAMAccountName))],
                 !.pc = "searchUnbind"]
        ELSE [r1 EXCEPT
                 !.userSearchResult =
                     [success |-> TRUE, userBindDN |-> entries[Len(entries)], result |-> NoResult],
                 !.pc = "searchUnbind"]

(* #findUserBindDN after `await client.search(...)` *)
afterSearch(r, ok, error, entries) ==
    LET r1 == [r EXCEPT !.trace = Append(@,
                   [Event("search", r.client) EXCEPT
                       !.key = r.sAMAccountName, !.ok = ok,
                       !.error = IF ok THEN NoError ELSE error,
                       !.entries = IF ok THEN entries ELSE <<>>])]
    IN  IF ~ok
        THEN findUserBindDNCatch(r1, error)
        ELSE IF Len(entries) = 0
        THEN [r1 EXCEPT
                 !.userSearchResult =
                     [success |-> FALSE, userBindDN |-> Undefined,
                      result |-> FailureResult(bindUserDN, "ACCOUNT_NOT_FOUND",
                                               AccountNotFoundError(r.sAMAccountName))],
                 !.pc = "searchUnbind"]
        ELSE [r1 EXCEPT
                 !.userSearchResult =
                     [success |-> TRUE, userBindDN |-> entries[1], result |-> NoResult],
                 !.pc = "searchUnbind"]

(* Whether authenticate() stores the DN it resolved *)
StoresUserBindDN(r) == cacheUserBindDNs /\ userBindDNsCache.present

(* After `await client.unbind()` of #findUserBindDN: the rest of authenticate()
   up to the await in #tryUserBind *)
afterSearchUnbind(r, c, ok, newOk) ==
    LET r1 == [r EXCEPT !.trace = Append(@,
                   [Event("unbind", r.client) EXCEPT
                       !.ok = ok, !.error = IF ok THEN NoError ELSE UnbindError])]
    IN  IF ~ok
        THEN [r1 EXCEPT !.pc = "thrown", !.thrown = UnbindError]
        ELSE IF ~r1.userSearchResult.success
        THEN [r1 EXCEPT !.pc = "returned", !.result = r1.userSearchResult.result]
        ELSE LET r2 == [r1 EXCEPT
                           !.userBindDN = r1.userSearchResult.userBindDN,
                           !.trace = IF StoresUserBindDN(r1)
                                     THEN Append(@, [Event("set", NoClient) EXCEPT
                                               !.key = r1.sAMAccountName,
                                               !.dn = r1.userSearchResult.userBindDN,
                                               !.at = now])
                                     ELSE @]
             IN  tryUserBindBegin(r2, c, newOk)

(* cacheAfterSearchUnbind storing the DN of the session it just closed *)
cacheAfterSearchUnbind_StoresServiceDN(r, ok) ==
    IF ok /\ r.userSearchResult.success /\ StoresUserBindDN(r)
    THEN CacheSet(userBindDNsCache, r.sAMAccountName, bindUserDN)
    ELSE userBindDNsCache

(* cacheAfterSearchUnbind of a call that leaves the storing to a later step *)
cacheAfterSearchUnbind_NotStored(r, ok) == userBindDNsCache

(* cacheAfterSearchUnbind that gives up its write when clearCache() has removed
   an entry of the same name *)
cacheAfterSearchUnbind_SkipsAfterClear(r, ok) ==
    IF ok /\ r.userSearchResult.success /\ StoresUserBindDN(r)
          /\ r.sAMAccountName \notin flushedKeys
    THEN CacheSet(userBindDNsCache, r.sAMAccountName, r.userSearchResult.userBindDN)
    ELSE userBindDNsCache

(* The cache after that step *)
cacheAfterSearchUnbind(r, ok) ==
    IF ok /\ r.userSearchResult.success /\ StoresUserBindDN(r)
    THEN CacheSet(userBindDNsCache, r.sAMAccountName, r.userSearchResult.userBindDN)
    ELSE userBindDNsCache

(* afterUserBind with the catch block missing: the result is a success
   whatever the bind answered *)
afterUserBind_IgnoresFailure(r, ok, error) ==
    [r EXCEPT !.trace = Append(@,
                  [Event("bind", r.client) EXCEPT
                      !.dn = r.userBindDN, !.password = r.password,
                      !.ok = ok, !.error = IF ok THEN NoError ELSE error]),
              !.result = SuccessResult(r.userBindDN, r.sAMAccountName),
              !.pc = "userUnbind"]

(* afterUserBind giving back the user name as the caller wrote it *)
afterUserBind_RawUserName(r, ok, error) ==
    LET args == UserBindArgs(r)
        r1 == [r EXCEPT !.trace = Append(@,
                   [Event("bind", r.client) EXCEPT
                       !.dn = args.dn, !.password = args.password,
                       !.ok = ok, !.error = IF ok THEN NoError ELSE error])]
    IN  IF ok
        THEN [r1 EXCEPT !.result = SuccessResult(r.userBindDN, r.userName),
                        !.pc = "userUnbind"]
        ELSE [r1 EXCEPT !.result = FailureResult(r.userBindDN, BindErrorType(error), error),
                        !.pc = "userUnbind"]

(* #tryUserBind after `await client.bind(userBindDN, password)` *)
afterUserBind(r, ok, error) ==
    LET args == UserBindArgs(r)
        r1 == [r EXCEPT !.trace = Append(@,
                   [Event("bind", r.client) EXCEPT
                       !.dn = args.dn, !.password = args.password,
                       !.ok = ok, !.error = IF ok THEN NoError ELSE error])]
    IN  IF ok
        THEN [r1 EXCEPT !.result = SuccessResult(r.userBindDN, r.sAMAccountName),
                        !.pc = "userUnbind"]
        ELSE [r1 EXCEPT !.result = FailureResult(r.userBindDN, BindErrorType(error), error),
                        !.pc = "userUnbind"]

(* cacheAfterUserBind dropping the entry of a DN the directory rejected *)
cacheAfterUserBind_Evicts(r, ok) ==
    IF ~ok /\ userBindDNsCache.present
    THEN [userBindDNsCache EXCEPT !.data =
             [k \in (DOMAIN userBindDNsCache.data) \ {r.sAMAccountName} |->
                 userBindDNsCache.data[k]]]
    ELSE userBindDNsCache

(* cacheAfterUserBind storing the DN once the directory has accepted it *)
cacheAfterUserBind_StoresAccepted(r, ok) ==
    IF ok /\ StoresUserBindDN(r)
    THEN CacheSet(userBindDNsCache, r.sAMAccountName, r.userBindDN)
    ELSE userBindDNsCache

(* The cache after that step: neither the try nor the catch block of
   #tryUserBind touches it *)
cacheAfterUserBind(r, ok) == userBindDNsCache

(* #tryUserBind after `await client.unbind()` in its finally block *)
afterUserUnbind(r, ok) ==
    LET r1 == [r EXCEPT !.trace = Append(@,
                   [Event("unbind", r.client) EXCEPT
                       !.ok = ok, !.error = IF ok THEN NoError ELSE UnbindError])]
    IN  IF ok
        THEN [r1 EXCEPT !.pc = "returned"]
        ELSE [r1 EXCEPT !.pc = "thrown", !.thrown = UnbindError, !.result = NoResult]

----------------------------------------------------------------------------
(* Environments *)

(* Messages a failed user bind can carry: one per sub-status, one without a
   sub-status, the bare code without the ` data ..., ` frame, and two sub-statuses in
   either order *)
UserBindMessages ==
    { AdMessage(activeDirectoryErrors[i][1]) : i \in 1..Len(activeDirectoryErrors) }
        \cup { <<"n", "o">>,
               <<"e", "r", "r", " ", "7", "7", "5">>,
               AdMessage(<<"7", "7", "5">>) \o AdMessage(<<"5", "2", "e">>),
               AdMessage(<<"5", "2", "e">>) \o AdMessage(<<"7", "7", "5">>) }

Directory ==
    [maxCalls |-> MaxCalls, userNames |-> UserNames, passwords |-> Passwords,
     newOk |-> {TRUE}, unbindOk |-> {TRUE},
     serviceBindErrors |-> { NetError },
     searchErrors |-> SearchErrors,
     searchEntries |-> SearchEntries,
     userBindErrors |-> { InvalidCredentialsError(AdMessage(<<"7", "7", "5">>)) }]

FaultyDirectory ==
    [maxCalls |-> MaxCalls, userNames |-> UserNames, passwords |-> Passwords,
     newOk |-> BOOLEAN, unbindOk |-> BOOLEAN,
     serviceBindErrors |-> ServiceBindErrors,
     searchErrors |-> SearchErrors,
     searchEntries |-> SearchEntries,
     userBindErrors |->
         { InvalidCredentialsError(m) : m \in UserBindMessages }
             \cup { NetError, OtherError(AdMessage(<<"7", "7", "5">>)) }]

----------------------------------------------------------------------------
(* Actions.  env is what the callers and the directory can do: the inputs of
   authenticate (userNames, passwords), the outcomes of the LdapClient
   constructor (newOk) and of unbind (unbindOk), the errors of the service
   bind, the search and the user bind, and the entries a search returns. *)

(* The first argument of the constructor: a URL string, or an options object
   with a url *)
StringArgument(u) == [typeof |-> "string", string |-> u, url |-> Undefined]
OptionsArgument(u) == [typeof |-> "object", string |-> Undefined, url |-> u]

(* clientOptions that takes the argument as it is given *)
clientOptions_AsGiven(argument) == [url |-> argument.url]

(* this.#clientOptions of the constructor *)
clientOptions(argument) ==
    IF argument.typeof = "string" THEN [url |-> argument.string] ELSE [url |-> argument.url]

(* new ActiveDirectoryAuthenticate(ldapClientOptions, config) *)
Init ==
    /\ ldapClientUrlOrOptions \in { OptionsArgument(u) : u \in Urls }
    /\ url = clientOptions(ldapClientUrlOrOptions).url
    /\ cacheUserBindDNs \in BOOLEAN
    /\ userBindDNsCache = NewCache(cacheUserBindDNs)
    /\ now = 0
    /\ started = 0
    /\ calls = [c \in Slots |-> IdleCall]
    /\ flushedKeys = {}
    /\ clearedInFlight = {}
    /\ userNamePartCall = [pc |-> "idle", userName |-> <<>>, userNamePart |-> <<>>]

(* A caller invokes authenticate(userName, password) *)
authenticate(c, env) ==
    /\ calls[c].pc \in {"idle", "returned", "thrown"}
    /\ started < env.maxCalls
    /\ \E userName \in env.userNames, password \in env.passwords, newOk \in env.newOk :
           calls' = [calls EXCEPT ![c] = authenticateBegin(c, userName, password, newOk)]
    /\ started' = started + 1
    /\ clearedInFlight' = clearedInFlight \ {c}
    /\ UNCHANGED <<userNamePartCall, flushedKeys, ldapClientUrlOrOptions, url, cacheUserBindDNs, userBindDNsCache, now>>

(* The service bind completes *)
serviceBindReturns(c, env) ==
    /\ calls[c].pc = "serviceBind"
    /\ \/ calls' = [calls EXCEPT ![c] = afterServiceBind(@, TRUE, NoError)]
       \/ \E error \in env.serviceBindErrors :
              calls' = [calls EXCEPT ![c] = afterServiceBind(@, FALSE, error)]
    /\ UNCHANGED <<userNamePartCall, flushedKeys, clearedInFlight, ldapClientUrlOrOptions, url, cacheUserBindDNs, userBindDNsCache, now, started>>

(* The search completes *)
searchReturns(c, env) ==
    /\ calls[c].pc = "search"
    /\ \/ \E entries \in env.searchEntries :
              calls' = [calls EXCEPT ![c] = afterSearch(@, TRUE, NoError, entries)]
       \/ \E error \in env.searchErrors :
              calls' = [calls EXCEPT ![c] = afterSearch(@, FALSE, error, <<>>)]
    /\ UNCHANGED <<userNamePartCall, flushedKeys, clearedInFlight, ldapClientUrlOrOptions, url, cacheUserBindDNs, userBindDNsCache, now, started>>

(* The unbind of #findUserBindDN completes *)
searchUnbindReturns(c, env) ==
    /\ calls[c].pc = "searchUnbind"
    /\ \E ok \in env.unbindOk, newOk \in env.newOk :
           /\ calls' = [calls EXCEPT ![c] = afterSearchUnbind(@, c, ok, newOk)]
           /\ userBindDNsCache' = cacheAfterSearchUnbind(calls[c], ok)
    /\ UNCHANGED <<userNamePartCall, flushedKeys, clearedInFlight, ldapClientUrlOrOptions, url, cacheUserBindDNs, now, started>>

(* The user bind completes *)
userBindReturns(c, env) ==
    /\ calls[c].pc = "userBind"
    /\ \/ /\ calls' = [calls EXCEPT ![c] = afterUserBind(@, TRUE, NoError)]
          /\ userBindDNsCache' = cacheAfterUserBind(calls[c], TRUE)
       \/ \E error \in env.userBindErrors :
              /\ calls' = [calls EXCEPT ![c] = afterUserBind(@, FALSE, error)]
              /\ userBindDNsCache' = cacheAfterUserBind(calls[c], FALSE)
    /\ UNCHANGED <<userNamePartCall, flushedKeys, clearedInFlight, ldapClientUrlOrOptions, url, cacheUserBindDNs, now, started>>

(* The unbind of #tryUserBind completes *)
userUnbindReturns(c, env) ==
    /\ calls[c].pc = "userUnbind"
    /\ \E ok \in env.unbindOk :
           calls' = [calls EXCEPT ![c] = afterUserUnbind(@, ok)]
    /\ UNCHANGED <<userNamePartCall, flushedKeys, clearedInFlight, ldapClientUrlOrOptions, url, cacheUserBindDNs, userBindDNsCache, now, started>>

(* clearCache() *)
clearCache ==
    /\ userBindDNsCache' = CacheFlushAll(userBindDNsCache)
    /\ flushedKeys' = flushedKeys \cup DOMAIN userBindDNsCache.data
    /\ UNCHANGED <<userNamePartCall, clearedInFlight, ldapClientUrlOrOptions, url, cacheUserBindDNs, now, started, calls>>

(* Time passes *)
Tick ==
    /\ now + TickStep <= MaxNow
    /\ now' = now + TickStep
    /\ UNCHANGED <<userNamePartCall, flushedKeys, clearedInFlight, ldapClientUrlOrOptions, url, cacheUserBindDNs, userBindDNsCache, started, calls>>

(* Two invocations that may overlap, against a directory that answers every
   operation and whose sessions always construct and close *)
Next ==
    \/ \E c \in Slots : authenticate(c, Directory)
    \/ \E c \in Slots : serviceBindReturns(c, Directory)
    \/ \E c \in Slots : searchReturns(c, Directory)
    \/ \E c \in Slots : searchUnbindReturns(c, Directory)
    \/ \E c \in Slots : userBindReturns(c, Directory)
    \/ \E c \in Slots : userUnbindReturns(c, Directory)
    \/ clearCache
    \/ Tick

Spec == Init /\ [][Next]_vars

(* One invocation after the other, against a directory with every failure:
   constructors and unbinds that throw, every error message *)
InitOne ==
    /\ Init
    /\ calls[2].pc = "idle"

NextOne ==
    \/ authenticate(1, FaultyDirectory)
    \/ serviceBindReturns(1, FaultyDirectory)
    \/ searchReturns(1, FaultyDirectory)
    \/ searchUnbindReturns(1, FaultyDirectory)
    \/ userBindReturns(1, FaultyDirectory)
    \/ userUnbindReturns(1, FaultyDirectory)
    \/ clearCache
    \/ Tick

SpecOne == InitOne /\ [][NextOne]_vars

(* The awaited operation of the invocation settles, with success or failure *)
SettlesOne ==
    \/ serviceBindReturns(1, FaultyDirectory)
    \/ searchReturns(1, FaultyDirectory)
    \/ searchUnbindReturns(1, FaultyDirectory)
    \/ userBindReturns(1, FaultyDirectory)
    \/ userUnbindReturns(1, FaultyDirectory)

(* The same, where every bind, search and unbind eventually completes *)
SpecOneFair ==
    /\ InitOne
    /\ [][NextOne]_vars
    /\ WF_vars(SettlesOne)

(* One more invocation, for two names of one account, with the cache enabled,
   against a directory whose sessions always construct and close *)
CacheDirectory ==
    [maxCalls |-> MaxCalls + 1,
     userNames |-> { <<"a">>, <<"D", "\\", "a">> }, passwords |-> { "pw" },
     newOk |-> {TRUE}, unbindOk |-> {TRUE},
     serviceBindErrors |-> { NetError },
     searchErrors |-> SearchErrors,
     searchEntries |-> { <<"CN=r1">>, <<"CN=r2", "CN=r1">> },
     userBindErrors |-> { InvalidCredentialsError(AdMessage(<<"5", "2", "e">>)) }]

InitCache ==
    /\ Init
    /\ url # ""
    /\ cacheUserBindDNs

NextCache ==
    \/ \E c \in Slots : authenticate(c, CacheDirectory)
    \/ \E c \in Slots : serviceBindReturns(c, CacheDirectory)
    \/ \E c \in Slots : searchReturns(c, CacheDirectory)
    \/ \E c \in Slots : searchUnbindReturns(c, CacheDirectory)
    \/ \E c \in Slots : userBindReturns(c, CacheDirectory)
    \/ \E c \in Slots : userUnbindReturns(c, CacheDirectory)
    \/ clearCache
    \/ Tick

SpecCache == InitCache /\ [][NextCache]_vars

(* Overlapping invocations against a directory that does not change: every
   search returns the same entries *)
StableDirectory ==
    [maxCalls |-> MaxCalls, userNames |-> UserNames, passwords |-> { "pw", "pw2" },
     newOk |-> {TRUE}, unbindOk |-> {TRUE},
     serviceBindErrors |-> { NetError },
     searchErrors |-> SearchErrors,
     searchEntries |-> { <<"CN=r2", "CN=r1">> },
     userBindErrors |-> { InvalidCredentialsError(AdMessage(<<"5", "2", "e">>)) }]

InitStable ==
    /\ Init
    /\ url # ""

NextStable ==
    \/ \E c \in Slots : authenticate(c, StableDirectory)
    \/ \E c \in Slots : serviceBindReturns(c, StableDirectory)
    \/ \E c \in Slots : searchReturns(c, StableDirectory)
    \/ \E c \in Slots : searchUnbindReturns(c, StableDirectory)
    \/ \E c \in Slots : userBindReturns(c, StableDirectory)
    \/ \E c \in Slots : userUnbindReturns(c, StableDirectory)
    \/ clearCache
    \/ Tick

SpecStable == InitStable /\ [][NextStable]_vars

(* Overlapping invocations for one name, with clearCache() at any moment,
   against a directory that answers every operation: the continuation of an
   await runs once the awaited operation has settled *)
ClearDirectory ==
    [maxCalls |-> MaxCalls,
     userNames |-> { <<"a">> }, passwords |-> { "pw" },
     newOk |-> {TRUE}, unbindOk |-> {TRUE},
     serviceBindErrors |-> { NetError },
     searchErrors |-> SearchErrors,
     searchEntries |-> { <<>>, <<"CN=r1">> },
     userBindErrors |-> { InvalidCredentialsError(AdMessage(<<"5", "2", "e">>)) }]

InitClear ==
    /\ Init
    /\ url # ""

(* The awaited operation of the invocation in slot c settles *)
Settles(c) ==
    \/ serviceBindReturns(c, ClearDirectory)
    \/ searchReturns(c, ClearDirectory)
    \/ searchUnbindReturns(c, ClearDirectory)
    \/ userBindReturns(c, ClearDirectory)
    \/ userUnbindReturns(c, ClearDirectory)

NextClear ==
    \/ \E c \in Slots : authenticate(c, ClearDirectory)
    \/ \E c \in Slots : Settles(c)
    \/ clearCache
    \/ Tick

SpecClear ==
    /\ InitClear
    /\ [][NextClear]_vars
    /\ \A c \in Slots : WF_vars(Settles(c))

(* One invocation after the other on an instance constructed with a URL
   string or with an options object *)
UrlDirectory ==
    [maxCalls |-> MaxCalls,
     userNames |-> { <<>>, <<"a">> }, passwords |-> Passwords,
     newOk |-> {TRUE}, unbindOk |-> {TRUE},
     serviceBindErrors |-> { NetError },
     searchErrors |-> SearchErrors,
     searchEntries |-> { <<>>, <<"CN=r1">> },
     userBindErrors |-> { InvalidCredentialsError(AdMessage(<<"5", "2", "e">>)) }]

(* new ActiveDirectoryAuthenticate(ldapClientUrlOrOptions, config) *)
InitUrl ==
    /\ ldapClientUrlOrOptions \in
           { StringArgument(u) : u \in Urls } \cup { OptionsArgument(u) : u \in Urls }
    /\ url = clientOptions(ldapClientUrlOrOptions).url
    /\ cacheUserBindDNs \in BOOLEAN
    /\ userBindDNsCache = NewCache(cacheUserBindDNs)
    /\ now = 0
    /\ started = 0
    /\ calls = [c \in Slots |-> IdleCall]
    /\ flushedKeys = {}
    /\ clearedInFlight = {}
    /\ userNamePartCall = [pc |-> "idle", userName |-> <<>>, userNamePart |-> <<>>]

NextUrl ==
    \/ authenticate(1, UrlDirectory)
    \/ serviceBindReturns(1, UrlDirectory)
    \/ searchReturns(1, UrlDirectory)
    \/ searchUnbindReturns(1, UrlDirectory)
    \/ userBindReturns(1, UrlDirectory)
    \/ userUnbindReturns(1, UrlDirectory)
    \/ clearCache
    \/ Tick

SpecUrl == InitUrl /\ [][NextUrl]_vars

(* Overlapping invocations for one name with the cache enabled, where
   clearCache() can run under an invocation that has looked the name up and
   not yet stored it *)
RaceDirectory ==
    [maxCalls |-> MaxCalls + 1,
     userNames |-> { <<"a">> }, passwords |-> { "pw" },
     newOk |-> {TRUE}, unbindOk |-> {TRUE},
     serviceBindErrors |-> { NetError },
     searchErrors |-> SearchErrors,
     searchEntries |-> { <<"CN=r1">>, <<"CN=r2", "CN=r1">> },
     userBindErrors |-> { InvalidCredentialsError(AdMessage(<<"5", "2", "e">>)) }]

(* The invocation in slot c is between its cache lookup, which gave nothing,
   and its cache write *)
BetweenLookupAndWrite(c) ==
    /\ userBindDNsCache.present
    /\ calls[c].pc \in {"serviceBind", "search", "searchUnbind"}

(* clearCache(), with the invocations it runs under recorded *)
clearCacheInFlight ==
    /\ userBindDNsCache' = CacheFlushAll(userBindDNsCache)
    /\ flushedKeys' = flushedKeys \cup DOMAIN userBindDNsCache.data
    /\ clearedInFlight' = clearedInFlight \cup { c \in Slots : BetweenLookupAndWrite(c) }
    /\ UNCHANGED <<userNamePartCall, ldapClientUrlOrOptions, url, cacheUserBindDNs, now, started, calls>>

NextRace ==
    \/ \E c \in Slots : authenticate(c, RaceDirectory)
    \/ \E c \in Slots : serviceBindReturns(c, RaceDirectory)
    \/ \E c \in Slots : searchReturns(c, RaceDirectory)
    \/ \E c \in Slots : searchUnbindReturns(c, RaceDirectory)
    \/ \E c \in Slots : userBindReturns(c, RaceDirectory)
    \/ \E c \in Slots : userUnbindReturns(c, RaceDirectory)
    \/ clearCacheInFlight
    \/ Tick

SpecRace == InitCache /\ [][NextRace]_vars

(* The user names a caller can pass to getUserNamePart *)
Alphabet == { "a", "b", "c", "@", "\\" }
Identities == UNION { [1..n -> Alphabet] : n \in 0..MaxNameLen }

(* A caller invokes getUserNamePart(userName) *)
getUserNamePartCalled ==
    /\ userNamePartCall.pc = "idle"
    /\ \E userName \in Identities :
           userNamePartCall' = [pc |-> "returned", userName |-> userName,
                                userNamePart |-> getUserNamePart(userName)]
    /\ UNCHANGED <<flushedKeys, clearedInFlight, ldapClientUrlOrOptions, url, cacheUserBindDNs, userBindDNsCache, now, started, calls>>

NextNames == getUserNamePartCalled

SpecNames == Init /\ [][NextNames]_vars

----------------------------------------------------------------------------
(* Reading an invocation's log *)

Finished(c) == calls[c].pc \in {"returned", "thrown"}
Returned(c) == calls[c].pc = "returned"

(* The positions of the log of c that hold an operation op *)
Ops(c, op) == { i \in 1..Len(calls[c].trace) : calls[c].trace[i].op = op }

(* The sessions c has constructed *)
Clients(c) == { calls[c].trace[i].client : i \in Ops(c, "new") }

(* The number of unbinds c has completed on a session *)
Unbinds(c, client) ==
    Cardinality({ i \in Ops(c, "unbind") : calls[c].trace[i].client = client })

(* The DN the cache gave c, else the first entry its search returned *)
ResolvedDN(c) ==
    LET t == calls[c].trace
        hits == { i \in Ops(c, "get") : t[i].dn # Undefined }
        found == { i \in Ops(c, "search") : t[i].ok /\ Len(t[i].entries) > 0 }
    IN  IF hits # {} THEN t[CHOOSE i \in hits : TRUE].dn
        ELSE IF found # {} THEN t[CHOOSE i \in found : TRUE].entries[1]
        ELSE Undefined

(* The binds of c with the resolved DN and the caller's password *)
UserBinds(c) ==
    { i \in Ops(c, "bind") :
        /\ ResolvedDN(c) # Undefined
        /\ calls[c].trace[i].dn = ResolvedDN(c)
        /\ calls[c].trace[i].password = calls[c].password }

(* The searches of c that succeeded with no entry *)
EmptySearches(c) ==
    { i \in Ops(c, "search") : calls[c].trace[i].ok /\ calls[c].trace[i].entries = <<>> }

----------------------------------------------------------------------------
(* C1: a call returns success: true only if a bind with the resolved (or
   cached) DN and the caller's password succeeded within that call; when that
   bind failed or was never attempted, a returned result is success: false. *)
C1_SuccessOnlyAfterUserBind ==
    \A c \in Slots :
        Returned(c) =>
            (calls[c].result.success =>
                \E i \in UserBinds(c) : calls[c].trace[i].ok)

(* A call has returned success, having bound with the resolved DN and the
   caller's password *)
C1_Witness ==
    \E c \in Slots :
        /\ Returned(c)
        /\ calls[c].result.success
        /\ \E i \in UserBinds(c) : calls[c].trace[i].ok

(* C2 as stated: authenticate("", secret) yields EMPTY_USER_NAME for every
   secret and opens no session. *)
C2_Original ==
    \A c \in Slots :
        (calls[c].pc # "idle" /\ calls[c].userName = <<>>) =>
            /\ Returned(c)
            /\ ~calls[c].result.success
            /\ calls[c].result.errorType = "EMPTY_USER_NAME"
            /\ calls[c].trace = <<>>

(* C2, amended: with a non-empty URL, authenticate("", secret) yields
   EMPTY_USER_NAME for every secret, at once and with no session opened (no
   constructor, bind, search or unbind, no cache access); in every
   configuration it opens no session. *)
C2_EmptyUserName ==
    \A c \in Slots :
        (calls[c].pc # "idle" /\ calls[c].userName = <<>>) =>
            /\ Returned(c)
            /\ ~calls[c].result.success
            /\ url # "" => calls[c].result.errorType = "EMPTY_USER_NAME"
            /\ calls[c].trace = <<>>
            /\ calls[c].nClients = 0

C2_Witness ==
    \E c \in Slots :
        /\ Returned(c)
        /\ calls[c].userName = <<>>
        /\ calls[c].password # ""
        /\ calls[c].result.errorType = "EMPTY_USER_NAME"

(* C3 as stated: authenticate(identity, "") yields EMPTY_PASSWORD for every
   identity. *)
C3_Original ==
    \A c \in Slots :
        (calls[c].pc # "idle" /\ calls[c].password = "") =>
            /\ Returned(c)
            /\ ~calls[c].result.success
            /\ calls[c].result.errorType = "EMPTY_PASSWORD"

(* C3, amended: with a non-empty URL, authenticate(identity, "") yields
   EMPTY_PASSWORD for every non-empty identity (an empty identity yields
   EMPTY_USER_NAME), at once and with no session opened. *)
C3_EmptyPassword ==
    \A c \in Slots :
        (calls[c].pc # "idle" /\ calls[c].password = "" /\ url # "") =>
            /\ Returned(c)
            /\ ~calls[c].result.success
            /\ calls[c].result.errorType =
                   IF calls[c].userName = <<>> THEN "EMPTY_USER_NAME" ELSE "EMPTY_PASSWORD"
            /\ calls[c].trace = <<>>

C3_Witness ==
    \E c \in Slots :
        /\ Returned(c)
        /\ calls[c].userName # <<>>
        /\ calls[c].password = ""
        /\ calls[c].result.errorType = "EMPTY_PASSWORD"

(* C4: no failure leaves authenticate as an exception or a rejected promise:
   every call that ends, ends with a result whose success flag is set, and,
   when it is a failure, its errorType. *)
C4_AlwaysAResult ==
    \A c \in Slots :
        Finished(c) =>
            /\ Returned(c)
            /\ "success" \in calls[c].result.fields
            /\ ~calls[c].result.success => "errorType" \in calls[c].result.fields

(* C5: every session a call constructed has been unbound exactly once when
   the call ends (returned or thrown), on every path, and no session is ever
   unbound twice. *)
C5_SessionsClosedOnce ==
    \A c \in Slots :
        /\ \A client \in Clients(c) : Unbinds(c, client) <= 1
        /\ Finished(c) => \A client \in Clients(c) : Unbinds(c, client) = 1
        /\ \A i \in Ops(c, "unbind") : calls[c].trace[i].client \in Clients(c)

(* A call that went through both sessions has ended with both closed *)
C5_Witness ==
    \E c \in Slots :
        /\ Returned(c)
        /\ Cardinality(Clients(c)) = 2
        /\ \A client \in Clients(c) : Unbinds(c, client) = 1

(* C6: a call whose search succeeded with zero entries ends with the failure
   ACCOUNT_NOT_FOUND as its result, and has issued no user bind: its only bind
   is the service bind, its only session the resolver's. *)
C6_ZeroEntries ==
    \A c \in Slots :
        (Finished(c) /\ EmptySearches(c) # {}) =>
            /\ Returned(c)
            /\ ~calls[c].result.success
            /\ calls[c].result.errorType = "ACCOUNT_NOT_FOUND"
            /\ \A i \in Ops(c, "bind") :
                   /\ calls[c].trace[i].dn = bindUserDN
                   /\ calls[c].trace[i].password = bindUserPassword
            /\ Cardinality(Clients(c)) = 1

(* C9: with an empty URL every call, whatever its inputs, returns at once the
   failure CONFIGURATION_ERROR, having opened no session and neither read nor
   written the cache. *)
C9_ConfigurationError ==
    url = "" =>
        /\ \A c \in Slots :
               calls[c].pc # "idle" =>
                   /\ Returned(c)
                   /\ ~calls[c].result.success
                   /\ calls[c].result.errorType = "CONFIGURATION_ERROR"
                   /\ calls[c].trace = <<>>
                   /\ calls[c].nClients = 0
        /\ userBindDNsCache = NewCache(cacheUserBindDNs)

C9_Witness ==
    /\ url = ""
    /\ \E c \in Slots :
           /\ Returned(c)
           /\ calls[c].userName = <<>>
           /\ calls[c].password = ""
           /\ calls[c].result.errorType = "CONFIGURATION_ERROR"

----------------------------------------------------------------------------
(* The status table of the specification: marker, error kind *)
StatusTable ==
    { <<<<"5", "2", "e">>, "LOGON_FAILURE">>,
      <<<<"5", "2", "5">>, "NO_SUCH_USER">>,
      <<<<"5", "3", "0">>, "INVALID_LOGIN_HOURS">>,
      <<<<"5", "3", "1">>, "INVALID_WORKSTATION">>,
      <<<<"5", "3", "2">>, "PASSWORD_EXPIRED">>,
      <<<<"5", "3", "3">>, "ACCOUNT_DISABLED">>,
      <<<<"5", "3", "4">>, "INVALID_LOGIN_TYPE">>,
      <<<<"7", "0", "1">>, "ACCOUNT_EXPIRED">>,
      <<<<"7", "7", "3">>, "PASSWORD_MUST_CHANGE">>,
      <<<<"7", "7", "5">>, "ACCOUNT_LOCKED_OUT">> }

(* A marker as the text ` data <marker>, ` *)
Framed(marker) == <<" ", "d", "a", "t", "a", " ">> \o marker \o <<",", " ">>

(* The user binds of c that failed *)
FailedUserBinds(c) == { i \in UserBinds(c) : ~calls[c].trace[i].ok }

(* The message has the framed marker of this row and of no other row *)
OnlyFramed(message, row) ==
    /\ Includes(message, Framed(row[1]))
    /\ \A other \in StatusTable \ {row} : ~Includes(message, Framed(other[1]))

(* C7: a call whose user bind failed with a directory error that carries the
   marker 775 (an InvalidCredentialsError whose message has ` data 775, ` and
   no other marker of the table) ends with the failure ACCOUNT_LOCKED_OUT as
   its result. *)
C7_AccountLockedOut ==
    \A c \in Slots :
        (Finished(c) /\ \E i \in FailedUserBinds(c) :
                            /\ calls[c].trace[i].error.class = "InvalidCredentialsError"
                            /\ OnlyFramed(calls[c].trace[i].error.message,
                                          <<<<"7", "7", "5">>, "ACCOUNT_LOCKED_OUT">>)) =>
            /\ Returned(c)
            /\ ~calls[c].result.success
            /\ calls[c].result.errorType = "ACCOUNT_LOCKED_OUT"

(* C8: for each row of the table, a call whose user bind failed with an
   InvalidCredentialsError whose message has the marker of that row and of no
   other row ends with a failure of that row's kind as its result. *)
C8_StatusTable ==
    \A row \in StatusTable : \A c \in Slots :
        (Finished(c) /\ \E i \in FailedUserBinds(c) :
                            /\ calls[c].trace[i].error.class = "InvalidCredentialsError"
                            /\ OnlyFramed(calls[c].trace[i].error.message, row)) =>
            /\ Returned(c)
            /\ ~calls[c].result.success
            /\ calls[c].result.errorType = row[2]

----------------------------------------------------------------------------
(* This step is the start of a call in slot c that passes validation *)
Begins(c) ==
    /\ calls[c].pc \in {"idle", "returned", "thrown"}
    /\ calls'[c].pc \notin {"idle", "returned"}
    /\ started' = started + 1

(* A call has resolved dn for key and stored it at most StdTTL ago *)
ResolvedWithinTTL(key, dn) ==
    \E c \in Slots : \E i \in Ops(c, "set") :
        /\ calls[c].trace[i].key = key
        /\ calls[c].trace[i].dn = dn
        /\ now - calls[c].trace[i].at <= StdTTL

(* The cache holds dn for key, not expired *)
CacheHolds(key, dn) ==
    /\ userBindDNsCache.present
    /\ key \in DOMAIN userBindDNsCache.data
    /\ userBindDNsCache.data[key].v = dn
    /\ now <= userBindDNsCache.data[key].t

(* The call in slot c was given dn by the cache *)
Hit(c, dn) == \E i \in Ops(c, "get") : calls[c].trace[i].dn = dn /\ dn # Undefined

(* A call that was given a DN by the cache has no service bind and no search,
   and binds with that DN only *)
HitGoesToUserBind(c) ==
    \A dn \in {"CN=r1", "CN=r2"} :
        Hit(c, dn) =>
            /\ Ops(c, "search") = {}
            /\ \A i \in Ops(c, "bind") :
                   /\ calls[c].trace[i].dn = dn
                   /\ calls[c].trace[i].password = calls[c].password
            /\ calls[c].pc \in {"userBind", "userUnbind", "returned", "thrown"}
            /\ calls[c].userBindDN = dn

(* C10 as stated: with caching enabled, once a call has resolved R for N, a
   call for N that starts within the TTL of that resolution does no service
   bind and no search and goes to the user bind against R. *)
C10_Original ==
    [][\A c \in Slots : \A dn \in {"CN=r1", "CN=r2"} :
           (/\ Begins(c)
            /\ cacheUserBindDNs
            /\ ResolvedWithinTTL(calls'[c].sAMAccountName, dn)) =>
               /\ calls'[c].pc = "userBind"
               /\ calls'[c].userBindDN = dn]_vars

(* C10, amended: with caching enabled, when a call for N starts while the
   cache still holds the entry N -> R of an earlier resolution (within its
   TTL, not removed by clearCache(), not replaced by a later resolution), the
   call does no service bind and no search and goes directly to the user bind
   against R. *)
C10_CacheHit ==
    [][\A c \in Slots :
           /\ \A dn \in {"CN=r1", "CN=r2"} :
                  (Begins(c) /\ CacheHolds(calls'[c].sAMAccountName, dn)) =>
                      /\ calls'[c].pc = "userBind"
                      /\ calls'[c].userBindDN = dn
                      /\ Hit(c, dn)'
           /\ HitGoesToUserBind(c)']_vars

(* A second call was given, by the cache, the DN another call had resolved
   for the same name, and has bound with it without a search *)
C10_Witness ==
    \E c \in Slots : \E dn \in {"CN=r1", "CN=r2"} :
        /\ Hit(c, dn)
        /\ Returned(c)
        /\ Ops(c, "search") = {}
        /\ \E i \in Ops(c, "bind") : calls[c].trace[i].dn = dn
        /\ \E c2 \in Slots \ {c} : \E i \in Ops(c2, "set") :
               /\ calls[c2].trace[i].key = calls[c].sAMAccountName
               /\ calls[c2].trace[i].dn = dn

----------------------------------------------------------------------------
(* An entry a call has stored for key has outlived its TTL *)
Expired(key) ==
    \E c \in Slots : \E i \in Ops(c, "set") :
        /\ calls[c].trace[i].key = key
        /\ calls[c].trace[i].at + StdTTL < now

(* key was cached before, and that entry has expired or clearCache() has
   removed it *)
CachedEntryGone(key) == cacheUserBindDNs /\ (Expired(key) \/ key \in flushedKeys)

(* The cache holds an entry for key, not expired *)
CacheHoldsKey(key) == \E dn \in {"CN=r1", "CN=r2"} : CacheHolds(key, dn)

(* A call the cache gave nothing binds as the user only with the first entry
   of a search of its own that followed its own service bind *)
MissResolves(c) ==
    (\E i \in Ops(c, "get") : calls[c].trace[i].dn = Undefined) =>
        \A b \in UserBinds(c) :
            \E sb \in Ops(c, "bind") : \E se \in Ops(c, "search") :
                /\ sb < se /\ se < b
                /\ calls[c].trace[sb].dn = bindUserDN /\ calls[c].trace[sb].ok
                /\ calls[c].trace[se].ok
                /\ calls[c].trace[se].entries # <<>>
                /\ calls[c].trace[b].dn = calls[c].trace[se].entries[1]

(* C11 as stated: once the entry cached for N has expired, or clearCache() has
   been called, a later call for N starts a fresh resolution (a service
   bind). *)
C11_Original ==
    [][\A c \in Slots :
           (Begins(c) /\ CachedEntryGone(calls'[c].sAMAccountName)) =>
               /\ calls'[c].pc = "serviceBind"
               /\ calls'[c].userBindDN = Undefined]_vars

(* C11, amended: once the entry cached for N has expired, or clearCache() has
   been called, a later call for N that starts before N has been resolved and
   cached again starts a fresh resolution: it is given nothing by the cache,
   issues the service bind, and binds as the user only with the first entry
   of its own search. *)
C11_FreshResolution ==
    [][\A c \in Slots :
           /\ (/\ Begins(c)
               /\ CachedEntryGone(calls'[c].sAMAccountName)
               /\ ~CacheHoldsKey(calls'[c].sAMAccountName)) =>
                  /\ calls'[c].pc = "serviceBind"
                  /\ calls'[c].userBindDN = Undefined
                  /\ \A dn \in {"CN=r1", "CN=r2"} : ~Hit(c, dn)'
           /\ MissResolves(c)']_vars

(* A call has resolved N again, by a search of its own, after the entry
   another call had stored for N expired, with no clearCache() *)
C11_Witness ==
    \E c \in Slots : \E c2 \in Slots \ {c} :
        /\ flushedKeys = {}
        /\ Ops(c, "get") # {} /\ \A i \in Ops(c, "get") : calls[c].trace[i].dn = Undefined
        /\ \E i \in Ops(c, "search") : calls[c].trace[i].ok
        /\ \E i \in Ops(c, "set") : \E j \in Ops(c2, "set") :
               /\ calls[c].trace[i].key = calls[c2].trace[j].key
               /\ calls[c2].trace[j].at + StdTTL < calls[c].trace[i].at
        /\ calls[c2].pc = "returned"
        /\ Returned(c)

----------------------------------------------------------------------------
(* The call in slot c resolved its DN by a search of its own and was then
   rejected at the user bind *)
RejectedAfterResolution(c) ==
    /\ \E i \in Ops(c, "search") : calls[c].trace[i].ok /\ calls[c].trace[i].entries # <<>>
    /\ FailedUserBinds(c) # {}
    /\ ~calls[c].result.success

(* This step is the return of the call in slot c *)
Returns(c) == calls[c].pc \in {"searchUnbind", "userUnbind"} /\ calls'[c].pc = "returned"

(* The cache holds, not expired, the DN the call in slot c has for its name *)
OwnEntryCached(c) == CacheHolds(calls[c].sAMAccountName, calls[c].userBindDN)

(* The same caller calling again with the same inputs *)
Retry(c) == authenticateBegin(c, calls[c].userName, calls[c].password, TRUE)

(* C12 as stated: with cacheUserBindDNs true, when a call that resolved its
   DN returns rejected at the user bind, a retry with the same name started at
   once goes to the user bind with no search. *)
C12_Original ==
    [][\A c \in Slots :
           (cacheUserBindDNs /\ Returns(c) /\ RejectedAfterResolution(c)') =>
               /\ Retry(c)'.pc = "userBind"
               /\ Retry(c)'.userBindDN = calls'[c].userBindDN]_vars

(* C12, amended: with cacheUserBindDNs true the resolved DN is stored, for 60
   seconds from the resolution, before the user bind is issued, and the
   outcome of the user bind does not touch it; when a call that resolved its
   DN returns rejected at the user bind, a retry with the same name started at
   once goes to the user bind with no search, provided the entry is still
   cached (60 seconds have not passed since the resolution and clearCache()
   has not been called). *)
C12_CachedBeforeUserBind ==
    [][\A c \in Slots :
           /\ (cacheUserBindDNs /\ calls[c].pc = "searchUnbind" /\ calls'[c].pc = "userBind") =>
                  /\ OwnEntryCached(c)'
                  /\ userBindDNsCache'.data[calls'[c].sAMAccountName].t = now + StdTTL
           /\ (calls[c].pc = "userBind" /\ calls'[c] # calls[c]) =>
                  userBindDNsCache' = userBindDNsCache
           /\ (/\ cacheUserBindDNs /\ Returns(c) /\ RejectedAfterResolution(c)'
               /\ OwnEntryCached(c)') =>
                  /\ Retry(c)'.pc = "userBind"
                  /\ Retry(c)'.userBindDN = calls'[c].userBindDN
                  /\ \A i \in 1..Len(Retry(c)'.trace) :
                         Retry(c)'.trace[i].op \in {"get", "new"}]_vars

(* After a call that was rejected at the user bind, a call for the same name
   was given the DN by the cache and has ended without a search *)
C12_Witness ==
    \E c \in Slots : \E c2 \in Slots \ {c} :
        /\ Returned(c2) /\ RejectedAfterResolution(c2)
        /\ Finished(c)
        /\ calls[c].sAMAccountName = calls[c2].sAMAccountName
        /\ Hit(c, calls[c2].userBindDN)
        /\ Ops(c, "search") = {}
        /\ UserBinds(c) # {}

----------------------------------------------------------------------------
(* The resolution of the call in slot c ended without a DN: its service bind
   failed, its search failed, or its search found nothing *)
ResolutionIncomplete(c) ==
    \/ \E i \in Ops(c, "bind") : calls[c].trace[i].dn = bindUserDN /\ ~calls[c].trace[i].ok
                                   /\ Ops(c, "search") = {}
    \/ \E i \in Ops(c, "search") : ~calls[c].trace[i].ok
    \/ EmptySearches(c) # {}

(* C13: the bindUserDN of a returned failure is empty when validation
   rejected the call (nothing was opened or looked up), the configured
   service-bind DN when the resolution ended without a DN, and the resolved
   or cached DN when the user bind failed; it is never anything else. *)
C13_FailureBindUserDN ==
    \A c \in Slots :
        (Returned(c) /\ ~calls[c].result.success) =>
            /\ "bindUserDN" \in calls[c].result.fields
            /\ calls[c].trace = <<>> =>
                   /\ calls[c].result.bindUserDN = ""
                   /\ calls[c].result.errorType \in
                          {"CONFIGURATION_ERROR", "EMPTY_USER_NAME", "EMPTY_PASSWORD"}
            /\ ResolutionIncomplete(c) =>
                   /\ calls[c].result.bindUserDN = bindUserDN
                   /\ UserBinds(c) = {}
            /\ FailedUserBinds(c) # {} =>
                   /\ calls[c].result.bindUserDN = ResolvedDN(c)
                   /\ ResolvedDN(c) \in {"CN=r1", "CN=r2"}
            /\ \/ calls[c].trace = <<>>
               \/ ResolutionIncomplete(c)
               \/ FailedUserBinds(c) # {}

(* A call given its DN by the cache has returned the failure of its user
   bind, with that DN *)
C13_Witness ==
    \E c \in Slots :
        /\ Returned(c) /\ ~calls[c].result.success
        /\ FailedUserBinds(c) # {}
        /\ \E i \in Ops(c, "get") : calls[c].trace[i].dn = calls[c].result.bindUserDN
        /\ calls[c].result.bindUserDN \in {"CN=r1", "CN=r2"}

----------------------------------------------------------------------------
(* The call in slot c has returned a success *)
Succeeded(c) == Returned(c) /\ calls[c].result.success

(* C14: against an unchanged directory, two calls with identical inputs that
   both return success return the same sAMAccountName and the same bindUserDN,
   with the cache enabled (whether the second is served by the cache or
   resolves again) and with the cache disabled. *)
C14_Idempotent ==
    \A c1, c2 \in Slots :
        (/\ Succeeded(c1) /\ Succeeded(c2)
         /\ calls[c1].userName = calls[c2].userName
         /\ calls[c1].password = calls[c2].password) =>
            /\ calls[c1].result.sAMAccountName = calls[c2].result.sAMAccountName
            /\ calls[c1].result.bindUserDN = calls[c2].result.bindUserDN
            /\ calls[c1].result = calls[c2].result

(* Two calls with identical inputs have both returned success, the first
   after a search, the second served by the cache *)
C14_Witness ==
    \E c1 \in Slots : \E c2 \in Slots \ {c1} :
        /\ Succeeded(c1) /\ Succeeded(c2)
        /\ calls[c1].userName = calls[c2].userName
        /\ calls[c1].password = calls[c2].password
        /\ Ops(c1, "search") # {}
        /\ Ops(c2, "search") = {}
        /\ Hit(c2, calls[c1].result.bindUserDN)

----------------------------------------------------------------------------
(* The result the call in slot c gets when it runs alone and the directory
   answers it as its log says *)
AloneResult(c) ==
    LET r == calls[c]
        t == r.trace
        norm == getUserNamePart(r.userName)
        failedServiceBinds == { i \in Ops(c, "bind") : t[i].dn = bindUserDN /\ ~t[i].ok
                                                         /\ Ops(c, "search") = {} }
        failedSearches == { i \in Ops(c, "search") : ~t[i].ok }
    IN  IF url = "" THEN ConfigurationErrorResult
        ELSE IF r.userName = <<>> \/ r.password = "" THEN EmptyInputResult(r.userName)
        ELSE IF failedServiceBinds # {}
        THEN FailureResult(bindUserDN, "LDAP_SEARCH_FAILED",
                           t[CHOOSE i \in failedServiceBinds : TRUE].error)
        ELSE IF failedSearches # {}
        THEN FailureResult(bindUserDN, "LDAP_SEARCH_FAILED",
                           t[CHOOSE i \in failedSearches : TRUE].error)
        ELSE IF EmptySearches(c) # {}
        THEN FailureResult(bindUserDN, "ACCOUNT_NOT_FOUND", AccountNotFoundError(norm))
        ELSE IF \E i \in UserBinds(c) : t[i].ok
        THEN SuccessResult(ResolvedDN(c), norm)
        ELSE LET error == t[CHOOSE i \in FailedUserBinds(c) : TRUE].error
             IN  FailureResult(ResolvedDN(c), BindErrorType(error), error)

(* The calls in the slots have distinct normalized names *)
DistinctIdentities ==
    \A c1, c2 \in Slots :
        (c1 # c2 /\ calls[c1].pc # "idle" /\ calls[c2].pc # "idle") =>
            getUserNamePart(calls[c1].userName) # getUserNamePart(calls[c2].userName)

(* Every operation in the log of c is on a session c constructed itself *)
OwnSessionsOnly(c) ==
    \A i \in 1..Len(calls[c].trace) :
        calls[c].trace[i].op \in {"bind", "search", "unbind"} =>
            /\ calls[c].trace[i].client \in Clients(c)
            /\ calls[c].trace[i].client[1] = c
            /\ \A c2 \in Slots \ {c} : calls[c].trace[i].client \notin Clients(c2)

(* C15: calls with pairwise distinct normalized names that overlap in any
   order bind, search and unbind only on sessions they constructed
   themselves, take from the cache nothing another of them stored, and each
   returns the result it gets when it runs alone against the same answers of
   the directory. *)
C15_Independent ==
    DistinctIdentities =>
        \A c \in Slots :
            /\ OwnSessionsOnly(c)
            /\ calls[c].pc \in {"serviceBind", "search", "searchUnbind", "userBind", "userUnbind"} =>
                   calls[c].client \in Clients(c)
            /\ \A c2 \in Slots \ {c} : \A i \in Ops(c, "get") : \A j \in Ops(c2, "set") :
                   calls[c].trace[i].key # calls[c2].trace[j].key
            /\ Returned(c) => calls[c].result = AloneResult(c)

(* Two calls with distinct names have overlapped, each on two sessions of its
   own, and both have returned *)
C15_Witness ==
    /\ DistinctIdentities
    /\ \A c \in Slots :
           /\ Returned(c)
           /\ Cardinality(Clients(c)) = 2
           /\ calls[c].result = AloneResult(c)
    /\ calls[1].result.success /\ ~calls[2].result.success

----------------------------------------------------------------------------
(* The sessions the call in slot c has constructed and not yet unbound after
   the first n operations of its log *)
OpenAfter(c, n) ==
    { calls[c].trace[i].client : i \in { k \in Ops(c, "new") : k <= n } }
        \ { calls[c].trace[i].client : i \in { k \in Ops(c, "unbind") : k <= n } }

(* C16: in one call the user bind is never issued on the session that carried
   the service bind, a second session is constructed only after the unbind of
   the first has completed, and at no point has the call two sessions open. *)
C16_SessionsApart ==
    \A c \in Slots :
        /\ \A i, j \in Ops(c, "bind") :
               (calls[c].trace[i].dn = bindUserDN /\ calls[c].trace[i].password = bindUserPassword
                    /\ i < j) =>
                   calls[c].trace[j].client # calls[c].trace[i].client
        /\ \A i \in UserBinds(c) : \A j \in Ops(c, "search") :
               calls[c].trace[i].client # calls[c].trace[j].client
        /\ \A n \in Ops(c, "new") : OpenAfter(c, n - 1) = {}
        /\ \A n \in 0..Len(calls[c].trace) : Cardinality(OpenAfter(c, n)) <= 1
        /\ \A i \in Ops(c, "bind") \cup Ops(c, "search") :
               calls[c].trace[i].client \in OpenAfter(c, i)
        /\ Cardinality(Clients(c)) <= 2

(* A call has bound as the user on its second session, constructed after the
   unbind of the first *)
C16_Witness ==
    \E c \in Slots :
        /\ Cardinality(Clients(c)) = 2
        /\ \E i \in UserBinds(c) : \E j \in Ops(c, "unbind") : \E k \in Ops(c, "search") :
               /\ k < j /\ j < i
               /\ calls[c].trace[j].client = calls[c].trace[k].client
               /\ calls[c].trace[i].client # calls[c].trace[k].client

----------------------------------------------------------------------------
(* The positions of character ch in s *)
Positions(s, ch) == { i \in 1..Len(s) : s[i] = ch }

(* s up to its first ch, and s after its first ch *)
BeforeFirst(s, ch) ==
    SubSeq(s, 1, (CHOOSE i \in Positions(s, ch) : \A j \in Positions(s, ch) : i <= j) - 1)
AfterFirst(s, ch) ==
    SubSeq(s, (CHOOSE i \in Positions(s, ch) : \A j \in Positions(s, ch) : i <= j) + 1, Len(s))

(* C17 as stated: a user name with no '@' and not exactly one backslash is
   returned unchanged, also with two or more backslashes. *)
C17_Original ==
    (/\ userNamePartCall.pc = "returned"
     /\ Positions(userNamePartCall.userName, "@") = {}
     /\ Cardinality(Positions(userNamePartCall.userName, "\\")) # 1) =>
        userNamePartCall.userNamePart = userNamePartCall.userName

(* C17, amended: a user name with no '@' and no backslash is returned
   unchanged; a user name with no '@' and two or more backslashes (three or
   more segments, e.g. a\b\c) is not: its first segment, the text before the
   first backslash, is returned. *)
C17_FirstSegment ==
    (/\ userNamePartCall.pc = "returned"
     /\ Positions(userNamePartCall.userName, "@") = {}) =>
        /\ Positions(userNamePartCall.userName, "\\") = {} =>
               userNamePartCall.userNamePart = userNamePartCall.userName
        /\ Cardinality(Positions(userNamePartCall.userName, "\\")) >= 2 =>
               userNamePartCall.userNamePart = BeforeFirst(userNamePartCall.userName, "\\")

(* getUserNamePart has returned a for a\b\c *)
C17_Witness ==
    /\ userNamePartCall.pc = "returned"
    /\ userNamePartCall.userName = <<"a", "\\", "b", "\\", "c">>
    /\ userNamePartCall.userNamePart = <<"a">>

(* C18: getUserNamePart returns a string for every user name: with an '@',
   the text before the first '@', whatever backslashes there are; else with
   exactly one backslash, the text after it; and a non-empty user name with
   neither is returned as it is. *)
C18_UserNamePart ==
    userNamePartCall.pc = "returned" =>
        LET userName == userNamePartCall.userName
            userNamePart == userNamePartCall.userNamePart
        IN  /\ userNamePart \in Identities
            /\ Positions(userName, "@") # {} => userNamePart = BeforeFirst(userName, "@")
            /\ (Positions(userName, "@") = {}
                    /\ Cardinality(Positions(userName, "\\")) = 1) =>
                   userNamePart = AfterFirst(userName, "\\")
            /\ (userName # <<>> /\ Positions(userName, "@") = {}
                    /\ Positions(userName, "\\") = {}) =>
                   userNamePart = userName

(* getUserNamePart has returned b\a for b\a@c: the '@' rule came first *)
C18_Witness ==
    /\ userNamePartCall.pc = "returned"
    /\ userNamePartCall.userName = <<"b", "\\", "a", "@", "c">>
    /\ userNamePartCall.userNamePart = <<"b", "\\", "a">>

----------------------------------------------------------------------------
(* The service binds in the log of c *)
ServiceBinds(c) ==
    { i \in Ops(c, "bind") : /\ calls[c].trace[i].dn = bindUserDN
                             /\ calls[c].trace[i].password = bindUserPassword }

(* C19: one call issues at most one service bind, at most one search and at
   most one user bind, whatever their outcomes, and goes through its steps
   once, in order: service bind, search, unbind, user bind, unbind. *)
C19_NoRetry ==
    \A c \in Slots :
        /\ Cardinality(ServiceBinds(c)) <= 1
        /\ Cardinality(Ops(c, "search")) <= 1
        /\ Cardinality(Ops(c, "bind") \ ServiceBinds(c)) <= 1
        /\ Cardinality(Ops(c, "get")) <= 1
        /\ Cardinality(Ops(c, "set")) <= 1
        /\ \A i \in ServiceBinds(c) : \A j \in Ops(c, "search") : i < j
        /\ \A i \in Ops(c, "search") : \A j \in Ops(c, "bind") \ ServiceBinds(c) : i < j
        /\ \A i \in Ops(c, "bind") : ~calls[c].trace[i].ok =>
               \A j \in Ops(c, "bind") \cup Ops(c, "search") : j <= i
        /\ \A i \in Ops(c, "search") :
               (~calls[c].trace[i].ok \/ calls[c].trace[i].entries = <<>>) =>
                   \A j \in Ops(c, "bind") \cup Ops(c, "search") : j <= i

(* A call has returned the failure of its only user bind, after its only
   service bind and its only search *)
C19_Witness ==
    \E c \in Slots :
        /\ Returned(c) /\ ~calls[c].result.success
        /\ Cardinality(ServiceBinds(c)) = 1
        /\ Cardinality(Ops(c, "search")) = 1
        /\ Cardinality(FailedUserBinds(c)) = 1
        /\ Cardinality(Ops(c, "bind")) = 2

----------------------------------------------------------------------------
(* The call in slot c was given its DN by the cache *)
HitPath(c) == \E dn \in {"CN=r1", "CN=r2"} : Hit(c, dn)

(* The call in slot c has not resolved anything itself, nor stored anything *)
NoResolution(c) ==
    /\ Ops(c, "search") = {}
    /\ Ops(c, "set") = {}
    /\ ServiceBinds(c) = {}
    /\ Cardinality(Clients(c)) <= 1

(* C20: no step of a call that was given its DN by the cache changes the
   cache (keys, values, expiry times), whether its user bind fails or not, and
   such a call issues no service bind and no search: a failed user bind ends
   the call with the failure. *)
C20_CacheUntouched ==
    [][\A c \in Slots :
           (calls'[c] # calls[c] /\ HitPath(c)') =>
               /\ userBindDNsCache' = userBindDNsCache
               /\ NoResolution(c)'
               /\ FailedUserBinds(c)' # {} =>
                      /\ calls'[c].pc \in {"userUnbind", "returned", "thrown"}
                      /\ ~calls'[c].result.success]_vars

(* A call given its DN by the cache has returned the failure of its user
   bind, and the cache still holds that entry *)
C20_Witness ==
    \E c \in Slots :
        /\ Returned(c) /\ ~calls[c].result.success
        /\ HitPath(c)
        /\ FailedUserBinds(c) # {}
        /\ NoResolution(c)
        /\ OwnEntryCached(c)

----------------------------------------------------------------------------
(* The inputs and the configuration of the call in slot c pass validation *)
Validated(c) ==
    /\ calls[c].pc # "idle"
    /\ url # "" /\ calls[c].userName # <<>> /\ calls[c].password # ""

(* The call in slot c is resolving, or has resolved, by itself: its first
   operation on the directory is a service bind on a session of its own, its
   search follows the success of that bind, and it binds as the user only with
   the first entry of that search *)
ResolvesItself(c) ==
    /\ calls[c].pc = "serviceBind" \/ ServiceBinds(c) # {}
    /\ (\E i \in ServiceBinds(c) : calls[c].trace[i].ok) =>
           (calls[c].pc = "search" \/ Ops(c, "search") # {})
    /\ \A b \in Ops(c, "bind") \ ServiceBinds(c) :
           \E sb \in ServiceBinds(c) : \E se \in Ops(c, "search") :
               /\ sb < se /\ se < b
               /\ calls[c].trace[sb].ok /\ calls[c].trace[se].ok
               /\ calls[c].trace[se].entries # <<>>
               /\ calls[c].trace[b].dn = calls[c].trace[se].entries[1]
    /\ calls[c].pc \in {"userBind", "userUnbind"} => Ops(c, "search") # {}

(* C21: with cacheUserBindDNs false there is no cache: no lookup gives a DN,
   nothing is stored, and every call that passes validation resolves by
   itself (service bind, then search), however many calls resolved the same
   name before. *)
C21_CacheDisabled ==
    ~cacheUserBindDNs =>
        /\ userBindDNsCache = NoCache
        /\ \A key \in { getUserNamePart(userName) : userName \in UserNames } :
               CacheGet(userBindDNsCache, key) = Undefined
        /\ \A c \in Slots :
               /\ ~HitPath(c)
               /\ Ops(c, "set") = {}
               /\ Validated(c) => ResolvesItself(c)

(* With the cache disabled two calls for one name have each searched *)
C21_Witness ==
    /\ ~cacheUserBindDNs
    /\ \A c \in Slots :
           /\ Validated(c)
           /\ \E i \in Ops(c, "search") : calls[c].trace[i].ok /\ calls[c].trace[i].entries # <<>>
    /\ calls[1].sAMAccountName = calls[2].sAMAccountName
    /\ Returned(1)
    /\ calls[2].pc = "userBind"

----------------------------------------------------------------------------
(* The call in slot c is between its invocation and its end *)
InFlight(c) == calls[c].pc \notin {"idle", "returned", "thrown"}

(* The result is a success or carries one of the error types *)
Classified(result) ==
    \/ result.success
    \/ result.errorType \in
           {"CONFIGURATION_ERROR", "EMPTY_USER_NAME", "EMPTY_PASSWORD",
            "LDAP_SEARCH_FAILED", "ACCOUNT_NOT_FOUND", "AUTHENTICATION_FAILED"}
               \cup { activeDirectoryErrors[i][2] : i \in DOMAIN activeDirectoryErrors }

(* What a step of clearCache() does *)
ClearCacheStep ==
    clearCache =>
        /\ userBindDNsCache'.data = <<>>
        /\ userBindDNsCache'.present = userBindDNsCache.present
        /\ CacheFlushAll(userBindDNsCache') = userBindDNsCache'
        /\ ~cacheUserBindDNs => userBindDNsCache' = NoCache /\ userBindDNsCache = NoCache
        /\ calls' = calls

(* C22: clearCache() leaves no entry in the cache, a second clearCache()
   changes nothing more, without a cache it changes nothing at all, it leaves
   every invocation as it is, and with clearCache() at any moment every
   invocation in flight returns a result with one of the error types (or
   success). *)
C22_ClearCache ==
    /\ [][ClearCacheStep]_vars
    /\ \A c \in Slots :
           InFlight(c) ~>
               (Returned(c) /\ Classified(calls[c].result))

(* The entry an invocation in flight stored has been flushed under it *)
C22_Witness ==
    \E c \in Slots :
        /\ calls[c].pc = "userBind"
        /\ Ops(c, "set") # {}
        /\ calls[c].sAMAccountName \in flushedKeys
        /\ userBindDNsCache = EmptyCache

----------------------------------------------------------------------------
(* The URL the caller constructed the instance with *)
GivenUrl ==
    IF ldapClientUrlOrOptions.typeof = "string"
    THEN ldapClientUrlOrOptions.string
    ELSE ldapClientUrlOrOptions.url

(* C23: an instance constructed with the URL string u has the client options
   of an instance constructed with {url: u}; nothing else of the instance
   reads the argument, so the two take the same steps to the same results: in
   particular a call returns CONFIGURATION_ERROR exactly when u is empty. *)
C23_UrlString ==
    /\ \A u \in Urls : clientOptions(StringArgument(u)) = clientOptions(OptionsArgument(u))
    /\ url = GivenUrl
    /\ \A c \in Slots :
           calls[c].pc # "idle" =>
               /\ GivenUrl = "" => Returned(c) /\ calls[c].result = ConfigurationErrorResult
               /\ GivenUrl # "" => calls[c].result.errorType # "CONFIGURATION_ERROR"

(* An instance constructed with a URL string has authenticated a user *)
C23_Witness ==
    /\ ldapClientUrlOrOptions = StringArgument("ldap://dc")
    /\ Returned(1)
    /\ calls[1].result.success

----------------------------------------------------------------------------
(* The message has the framed marker of some row of the table *)
HasMarker(message) == \E row \in StatusTable : Includes(message, Framed(row[1]))

(* C24: a call whose user bind failed with an error of another class than
   InvalidCredentialsError, whatever markers its message has, or with an
   InvalidCredentialsError whose message has no marker, ends with the failure
   AUTHENTICATION_FAILED as its result. *)
C24_OtherClasses ==
    \A c \in Slots :
        (Finished(c) /\ \E i \in FailedUserBinds(c) :
                            \/ calls[c].trace[i].error.class # "InvalidCredentialsError"
                            \/ ~HasMarker(calls[c].trace[i].error.message)) =>
            /\ Returned(c)
            /\ ~calls[c].result.success
            /\ calls[c].result.errorType = "AUTHENTICATION_FAILED"

----------------------------------------------------------------------------
(* C25: a call whose service bind failed ends with the failure
   LDAP_SEARCH_FAILED as its result, with the error of the bind and the
   service account's DN in it, and has issued no search, no user bind and no
   cache write, and has closed its only session, the resolver's. *)
C25_ServiceBindFails ==
    \A c \in Slots :
        \A i \in ServiceBinds(c) :
            (Finished(c) /\ ~calls[c].trace[i].ok) =>
                /\ Returned(c)
                /\ calls[c].result =
                       FailureResult(bindUserDN, "LDAP_SEARCH_FAILED", calls[c].trace[i].error)
                /\ Ops(c, "search") = {}
                /\ Ops(c, "bind") = ServiceBinds(c)
                /\ Ops(c, "set") = {}
                /\ Clients(c) = {calls[c].trace[i].client}
                /\ Unbinds(c, calls[c].trace[i].client) = 1

----------------------------------------------------------------------------
(* The searches of c that failed *)
FailedSearches(c) == { i \in Ops(c, "search") : ~calls[c].trace[i].ok }

(* C26: a call whose search failed, after its service bind succeeded, ends
   with the failure LDAP_SEARCH_FAILED as its result, with the error of the
   search as its error; a call whose user bind failed ends with a failure
   whose error is the error of that bind. *)
C26_RawCause ==
    \A c \in Slots :
        /\ \A i \in FailedSearches(c) :
               Finished(c) =>
                   /\ \E b \in ServiceBinds(c) : b < i /\ calls[c].trace[b].ok
                   /\ Returned(c)
                   /\ ~calls[c].result.success
                   /\ calls[c].result.errorType = "LDAP_SEARCH_FAILED"
                   /\ "error" \in calls[c].result.fields
                   /\ calls[c].result.error = calls[c].trace[i].error
        /\ \A i \in FailedUserBinds(c) :
               Finished(c) =>
                   /\ Returned(c)
                   /\ ~calls[c].result.success
                   /\ "error" \in calls[c].result.fields
                   /\ calls[c].result.error = calls[c].trace[i].error

----------------------------------------------------------------------------
(* This step puts an entry into the cache, or replaces one *)
CacheWritten ==
    \E key \in DOMAIN userBindDNsCache'.data :
        \/ key \notin DOMAIN userBindDNsCache.data
        \/ userBindDNsCache'.data[key] # userBindDNsCache.data[key]

(* The call in slot c has stored, under its name, the first entry of its own
   search, and has issued no bind but the service bind *)
StoredBeforeUserBind(c) ==
    /\ ~HitPath(c)
    /\ Ops(c, "bind") = ServiceBinds(c)
    /\ \E st \in Ops(c, "set") : \E se \in Ops(c, "search") :
           /\ se < st
           /\ \A i \in DOMAIN calls[c].trace : calls[c].trace[i].op = "bind" => i < se
           /\ calls[c].trace[se].ok /\ calls[c].trace[se].entries # <<>>
           /\ calls[c].trace[st].key = calls[c].sAMAccountName
           /\ calls[c].trace[st].dn = calls[c].trace[se].entries[1]
           /\ CacheHolds(calls[c].sAMAccountName, calls[c].trace[se].entries[1])

(* The call in slot c has stored nothing *)
NothingStored(c) == Ops(c, "set") = {}

(* C27: an entry gets into the cache only with cacheUserBindDNs on, by a step
   of a call whose own search returned at least one entry, and before that call
   issues its user bind; a call given its DN by the cache, and a call that
   returns CONFIGURATION_ERROR, EMPTY_USER_NAME, EMPTY_PASSWORD,
   LDAP_SEARCH_FAILED or ACCOUNT_NOT_FOUND, has stored nothing. *)
C27_WrittenOnlyAfterSearch ==
    /\ [][CacheWritten =>
             /\ cacheUserBindDNs
             /\ \E c \in Slots :
                    /\ calls'[c] # calls[c]
                    /\ NothingStored(c)
                    /\ StoredBeforeUserBind(c)']_vars
    /\ [](\A c \in Slots :
             /\ HitPath(c) => NothingStored(c)
             /\ (Returned(c) /\ calls[c].result.errorType \in
                     {"CONFIGURATION_ERROR", "EMPTY_USER_NAME", "EMPTY_PASSWORD",
                      "LDAP_SEARCH_FAILED", "ACCOUNT_NOT_FOUND"}) => NothingStored(c))

(* A call waiting for its user bind has stored the DN it resolved *)
C27_Witness ==
    \E c \in Slots :
        /\ calls[c].pc = "userBind"
        /\ StoredBeforeUserBind(c)

----------------------------------------------------------------------------
(* The names under which the cache can hold an entry *)
Keys == { getUserNamePart(userName) : userName \in UserNames }

(* The time the entry of key was inserted *)
InsertedAt(key) == userBindDNsCache.data[key].t - StdTTL

(* What the cache gave the call in slot c, if anything, is the value of the
   entry of its name, inserted at most StdTTL ago *)
HitWithinTTL(c) ==
    \A i \in Ops(c, "get") :
        calls[c].trace[i].dn # Undefined =>
            /\ calls[c].trace[i].key = calls[c].sAMAccountName
            /\ calls[c].sAMAccountName \in DOMAIN userBindDNsCache.data
            /\ userBindDNsCache.data[calls[c].sAMAccountName].v = calls[c].trace[i].dn
            /\ now - InsertedAt(calls[c].sAMAccountName) <= StdTTL

(* The call in slot c has stored an entry under key *)
StoredUnder(c, key) == \E st \in Ops(c, "set") : calls[c].trace[st].key = key

(* The call in slot c was given nothing by the cache and has then stored, under
   key, an entry that is in the cache with the present time as insertion time *)
StoredAfterMiss(c, key) ==
    \E g \in Ops(c, "get") : \E st \in Ops(c, "set") :
        /\ g < st
        /\ calls[c].trace[g].key = key /\ calls[c].trace[g].dn = Undefined
        /\ calls[c].trace[st].key = key
        /\ key \in DOMAIN userBindDNsCache.data
        /\ userBindDNsCache.data[key].v = calls[c].trace[st].dn
        /\ InsertedAt(key) = now

(* C28: what the cache gives a call is an entry inserted at most 60 seconds
   before; the step that is given it leaves the cache as it is, and an entry
   changes (value, expiry time) only by the insertion, under the same key, of
   a call that the cache had given nothing, and then expires 60 seconds after
   that insertion. *)
C28_TTL ==
    [][/\ \A c \in Slots :
              Begins(c) => userBindDNsCache' = userBindDNsCache /\ HitWithinTTL(c)'
       /\ \A key \in Keys :
              \/ key \notin DOMAIN userBindDNsCache'.data
              \/ /\ key \in DOMAIN userBindDNsCache.data
                 /\ userBindDNsCache'.data[key] = userBindDNsCache.data[key]
                 /\ \A c \in Slots : NothingStored(c) => ~StoredUnder(c, key)'
              \/ \E c \in Slots :
                     /\ NothingStored(c) /\ ~NothingStored(c)'
                     /\ StoredAfterMiss(c, key)']_vars

(* A call has been given nothing for a name whose entry is in the cache, more
   than 60 seconds old, after another call was given that entry *)
C28_Witness ==
    /\ started = 2
    /\ calls[1].pc = "serviceBind"
    /\ \E g \in Ops(1, "get") : calls[1].trace[g].dn = Undefined
    /\ calls[1].sAMAccountName \in DOMAIN userBindDNsCache.data
    /\ now - InsertedAt(calls[1].sAMAccountName) > StdTTL

----------------------------------------------------------------------------
(* The searches of c that returned more than one entry *)
AmbiguousSearches(c) ==
    { i \in Ops(c, "search") : calls[c].trace[i].ok /\ Len(calls[c].trace[i].entries) > 1 }

(* C29: a call whose search returned more than one entry goes on with the DN
   of the first entry: it stores that DN (with the cache enabled), issues its
   user bind with that DN, and ends with a result that carries that DN. *)
C29_FirstEntry ==
    \A c \in Slots :
        \A i \in AmbiguousSearches(c) :
            LET dn == calls[c].trace[i].entries[1]
            IN  /\ calls[c].pc \in {"userBind", "userUnbind", "returned", "thrown"} =>
                       /\ calls[c].userBindDN = dn
                       /\ cacheUserBindDNs =>
                              \E st \in Ops(c, "set") :
                                  /\ calls[c].trace[st].key = calls[c].sAMAccountName
                                  /\ calls[c].trace[st].dn = dn
                       /\ Finished(c) =>
                              \E b \in Ops(c, "bind") :
                                  /\ i < b
                                  /\ calls[c].trace[b].dn = dn
                                  /\ calls[c].trace[b].password = calls[c].password
                /\ Finished(c) =>
                       /\ Returned(c)
                       /\ calls[c].result.bindUserDN = dn

----------------------------------------------------------------------------
(* The markers in the order of the table *)
MarkerOrder ==
    << <<"5", "2", "e">>, <<"5", "2", "5">>, <<"5", "3", "0">>, <<"5", "3", "1">>,
       <<"5", "3", "2">>, <<"5", "3", "3">>, <<"5", "3", "4">>, <<"7", "0", "1">>,
       <<"7", "7", "3">>, <<"7", "7", "5">> >>

(* The positions, in that order, of the markers the message has *)
MarkersOf(message) ==
    { i \in DOMAIN MarkerOrder : Includes(message, Framed(MarkerOrder[i])) }

(* The error kind of the marker at position i *)
KindOf(i) == (CHOOSE row \in StatusTable : row[1] = MarkerOrder[i])[2]

(* C30: a call whose user bind failed with an InvalidCredentialsError whose
   message has more than one marker ends with a failure whose kind is that of
   the first of these markers in the order of the table, wherever they are in
   the message. *)
C30_FirstMarker ==
    \A c \in Slots :
        \A i \in FailedUserBinds(c) :
            LET error == calls[c].trace[i].error
                found == MarkersOf(error.message)
            IN  (/\ Finished(c)
                 /\ error.class = "InvalidCredentialsError"
                 /\ Cardinality(found) > 1) =>
                    /\ Returned(c)
                    /\ ~calls[c].result.success
                    /\ \E first \in found :
                           /\ \A other \in found : first <= other
                           /\ calls[c].result.errorType = KindOf(first)

----------------------------------------------------------------------------
(* C31: where every bind, search and unbind eventually completes, with success
   or failure, every call in flight leads to a returned result that is a
   success or a failure of one of the kinds, whatever clearCache() does in
   between. *)
C31_Terminates ==
    \A c \in Slots :
        InFlight(c) ~> (Returned(c) /\ Classified(calls[c].result))

----------------------------------------------------------------------------
(* The binds the call in slot c has issued for its caller: those that follow
   its search, and every bind of a call given its DN by the cache *)
CallerBinds(c) ==
    { i \in Ops(c, "bind") : HitPath(c) \/ \E se \in Ops(c, "search") : se < i }

(* C32: every bind a call issues for its caller, after its own search or with
   a DN from the cache, carries the password that call was given, and that
   password is not empty; the same holds of the bind a call is waiting for. *)
C32_NoEmptyPassword ==
    \A c \in Slots :
        /\ \A i \in CallerBinds(c) :
               /\ calls[c].trace[i].password = calls[c].password
               /\ calls[c].trace[i].password # ""
        /\ calls[c].pc = "userBind" =>
               /\ UserBindArgs(calls[c]).password = calls[c].password
               /\ UserBindArgs(calls[c]).password # ""

(* A call given its DN by the cache has bound with its caller's password *)
C32_Witness ==
    \E c \in Slots :
        /\ HitPath(c)
        /\ \E i \in CallerBinds(c) : calls[c].trace[i].password = "pw"

----------------------------------------------------------------------------
(* C33: for every user name that is not empty, and so passes the validation of
   authenticate, the user name part, which authenticate uses in the search
   filter and as the cache key, is not empty. *)
C33_NonEmptyName ==
    (userNamePartCall.pc = "returned" /\ userNamePartCall.userName # <<>>) =>
        userNamePartCall.userNamePart # <<>>

----------------------------------------------------------------------------
(* The call in slot c has stored under key, its own name, the first entry of
   its own successful search for key, and the cache holds that value *)
FirstEntryStored(c, key) ==
    /\ calls[c].sAMAccountName = key
    /\ key \in DOMAIN userBindDNsCache.data
    /\ \E se \in Ops(c, "search") : \E st \in Ops(c, "set") :
           /\ se < st
           /\ calls[c].trace[se].ok /\ calls[c].trace[se].key = key
           /\ calls[c].trace[se].entries # <<>>
           /\ calls[c].trace[st].key = key
           /\ calls[c].trace[st].dn = calls[c].trace[se].entries[1]
           /\ userBindDNsCache.data[key].v = calls[c].trace[se].entries[1]

(* The values in the cache are DNs, and none is the service account's *)
ValuesAreDNs ==
    \A key \in DOMAIN userBindDNsCache.data :
        /\ key \in Keys
        /\ userBindDNsCache.data[key].v \notin {"", Undefined, bindUserDN}

(* C34: the value the cache holds under a key is there since a step in which
   a call for that name stored the first entry of its own successful search
   for that name; it is never empty, undefined or the service account's DN. *)
C34_CachedValues ==
    [][/\ \A key \in Keys :
              key \in DOMAIN userBindDNsCache'.data =>
                  \/ /\ key \in DOMAIN userBindDNsCache.data
                     /\ userBindDNsCache'.data[key].v = userBindDNsCache.data[key].v
                     /\ \A c \in Slots : NothingStored(c) => ~StoredUnder(c, key)'
                  \/ \E c \in Slots : NothingStored(c) /\ FirstEntryStored(c, key)'
       /\ ValuesAreDNs']_vars

(* The cache holds, under the name of a call, the first of the two entries
   that call's search returned *)
C34_Witness ==
    \E c \in Slots :
        /\ calls[c].sAMAccountName \in DOMAIN userBindDNsCache.data
        /\ FirstEntryStored(c, calls[c].sAMAccountName)
        /\ AmbiguousSearches(c) # {}

----------------------------------------------------------------------------
(* C35: a success result carries the user name part of the call's user name
   and the DN of the call's successful user bind: the DN the cache gave the
   call, or else the first entry of the call's own search. *)
C35_SuccessResult ==
    \A c \in Slots :
        (Returned(c) /\ calls[c].result.success) =>
            /\ calls[c].result.sAMAccountName = getUserNamePart(calls[c].userName)
            /\ \E b \in CallerBinds(c) :
                   /\ calls[c].trace[b].ok
                   /\ calls[c].trace[b].dn = calls[c].result.bindUserDN
            /\ \A g \in Ops(c, "get") :
                   calls[c].trace[g].dn # Undefined =>
                       calls[c].result.bindUserDN = calls[c].trace[g].dn
            /\ ~HitPath(c) =>
                   \E se \in Ops(c, "search") :
                       /\ calls[c].trace[se].ok /\ calls[c].trace[se].entries # <<>>
                       /\ calls[c].result.bindUserDN = calls[c].trace[se].entries[1]

(* A call for D\a given its DN by the cache has returned success for a *)
C35_Witness ==
    \E c \in Slots :
        /\ Returned(c) /\ calls[c].result.success
        /\ HitPath(c)
        /\ calls[c].userName = <<"D", "\\", "a">>
        /\ calls[c].result.sAMAccountName = <<"a">>

----------------------------------------------------------------------------
(* A call with this user name has resolved dn for its name and stored it at
   most StdTTL ago *)
ResolvedAs(userName, dn) ==
    \E c \in Slots : \E i \in Ops(c, "set") :
        /\ calls[c].userName = userName
        /\ calls[c].trace[i].key = getUserNamePart(userName)
        /\ calls[c].trace[i].dn = dn
        /\ now - calls[c].trace[i].at <= StdTTL

(* Two user names of CacheDirectory that differ and have one user name part *)
Spellings ==
    { pair \in CacheDirectory.userNames \X CacheDirectory.userNames :
        /\ pair[1] # pair[2]
        /\ getUserNamePart(pair[1]) = getUserNamePart(pair[2]) }

(* C36 as stated: with caching enabled, once a call for one spelling of an
   account has resolved R, a call for another spelling with the same user name
   part that starts within the TTL does no search and goes to the user bind
   against R. *)
C36_Original ==
    [][\A c \in Slots : \A pair \in Spellings : \A dn \in {"CN=r1", "CN=r2"} :
           (/\ Begins(c)
            /\ cacheUserBindDNs
            /\ calls'[c].userName = pair[2]
            /\ ResolvedAs(pair[1], dn)) =>
               /\ calls'[c].pc = "userBind"
               /\ calls'[c].userBindDN = dn]_vars

(* C36, amended: with caching enabled, when a call for one spelling starts
   while the cache still holds, under the common user name part, the entry R
   that a call for another spelling resolved (within its TTL, not removed by
   clearCache(), not replaced by a later resolution), the call does no
   service bind and no search and goes to the user bind against R. *)
C36_KeyedByUserNamePart ==
    [][\A c \in Slots : \A pair \in Spellings : \A dn \in {"CN=r1", "CN=r2"} :
           (/\ Begins(c)
            /\ cacheUserBindDNs
            /\ calls'[c].userName = pair[2]
            /\ ResolvedAs(pair[1], dn)
            /\ CacheHolds(getUserNamePart(pair[2]), dn)) =>
               /\ calls'[c].pc = "userBind"
               /\ calls'[c].userBindDN = dn
               /\ Hit(c, dn)'
               /\ NoResolution(c)']_vars

(* A call for D\a was given, by the cache, the DN a call for a had resolved,
   and has bound with it without a search *)
C36_Witness ==
    \E c, c2 \in Slots : \E dn \in {"CN=r1", "CN=r2"} :
        /\ calls[c].userName = <<"D", "\\", "a">>
        /\ Hit(c, dn)
        /\ Returned(c)
        /\ Ops(c, "search") = {}
        /\ \E i \in Ops(c, "bind") : calls[c].trace[i].dn = dn
        /\ ResolvedAs(<<"a">>, dn)
        /\ calls[c2].userName = <<"a">>

----------------------------------------------------------------------------
(* clearCache() ran under the call in slot c, and the cache now holds, not
   expired, the first entry of that call's search, stored by that call *)
StoredAfterClear(c) ==
    /\ c \in clearedInFlight
    /\ FirstEntryStored(c, calls[c].sAMAccountName)
    /\ \E st \in Ops(c, "set") :
           CacheHolds(calls[c].sAMAccountName, calls[c].trace[st].dn)

(* C37: a call under which clearCache() ran, between its cache lookup and its
   cache write, still stores the DN it resolves when its resolution completes,
   so that the cache holds an entry after clearCache(); and a call for a name
   that starts while the cache holds an entry of that name, not expired, does
   no service bind and no search. *)
C37_InsertAfterClear ==
    [][\A c \in Slots :
           /\ (/\ c \in clearedInFlight
               /\ calls[c].pc = "searchUnbind" /\ calls[c].userSearchResult.success
               /\ calls'[c] # calls[c]) =>
                  /\ StoredAfterClear(c)'
                  /\ userBindDNsCache' # EmptyCache
           /\ \A dn \in {"CN=r1", "CN=r2"} :
                  (Begins(c) /\ CacheHolds(calls'[c].sAMAccountName, dn)) =>
                      /\ Hit(c, dn)'
                      /\ NoResolution(c)']_vars

(* clearCache() removed the entry of a name under a call for that name, and
   that call has since stored the DN it resolved *)
C37_Witness ==
    \E c \in Slots :
        /\ StoredAfterClear(c)
        /\ calls[c].sAMAccountName \in flushedKeys

----------------------------------------------------------------------------
(* The call in slot c was given nothing by the cache and has searched *)
ResolvedItself(c) ==
    /\ \E g \in Ops(c, "get") : calls[c].trace[g].dn = Undefined
    /\ \E se \in Ops(c, "search") : calls[c].trace[se].ok /\ calls[c].trace[se].entries # <<>>

(* C38: two calls for one name can both resolve it; at the step where the
   second of them completes its resolution and stores, the cache holds one
   entry for the name, whose value is the DN that call resolved, the first
   entry of its search, whatever the other call had stored. *)
C38_LastWriterWins ==
    [][\A c, c2 \in Slots :
           (/\ c # c2
            /\ calls[c].pc = "searchUnbind" /\ calls[c].userSearchResult.success
            /\ calls'[c] # calls[c]
            /\ ResolvedItself(c2)
            /\ StoredUnder(c2, calls[c].sAMAccountName)) =>
               /\ FirstEntryStored(c, calls[c].sAMAccountName)'
               /\ DOMAIN userBindDNsCache'.data = {calls[c].sAMAccountName}
               /\ userBindDNsCache'.data[calls[c].sAMAccountName] =
                      [v |-> calls[c].userSearchResult.userBindDN, t |-> now + StdTTL]]_vars

(* Two overlapping calls for one name have both searched and stored, CN=r1
   the one and CN=r2 the other, and the cache holds the DN of one of them *)
C38_Witness ==
    /\ now = 0 /\ flushedKeys = {} /\ started = 2
    /\ \A c \in Slots : ResolvedItself(c) /\ StoredUnder(c, <<"a">>)
    /\ \E st \in Ops(1, "set") : calls[1].trace[st].dn = "CN=r1"
    /\ \E st \in Ops(2, "set") : calls[2].trace[st].dn = "CN=r2"
    /\ DOMAIN userBindDNsCache.data = {<<"a">>}
    /\ userBindDNsCache.data[<<"a">>].v = "CN=r2"

====
